---- MODULE Spec2Model ----
(***************************************************************************)
(* Harmonic, Spectrum and IntervalSet of tuning-core as a state machine.   *)
(*                                                                         *)
(* Harmonic objects live in a heap of cells addressed by identity; a       *)
(* Spectrum is a JavaScript Map from the canonical frequency string to a   *)
(* reference to a Harmonic, kept in insertion order.  The caller holds     *)
(* references of its own (refs): the ones it constructed and the ones      *)
(* Spectrum.get handed out.  An IntervalSet is a Map from the canonical    *)
(* string of a ratio to the ratio, an immutable value.  Every call runs to  *)
(* its end in one step, except IntervalSet.densify, whose while loop takes *)
(* one step per pass.                                                      *)
(*                                                                         *)
(* Amplitudes are counted in units of 1/AmpOne and phases in units of      *)
(* 2*pi/TwoPi, so that the range checks of Harmonic.validate are integer   *)
(* comparisons.                                                            *)
(***************************************************************************)
EXTENDS Integers, Sequences, FiniteSets, TLC

\* ------------------------------------------------------------------ bounds
\* heap cells for Harmonic objects
MaxObj == 8
\* entries a Spectrum holds
MaxSize == 3
\* Spectrum variables of the caller
MaxSpectra == 2
\* largest numerator (in absolute value) and denominator of a stored frequency
MaxNum == 4
MaxDen == 2
\* references to Harmonic objects the caller holds at a time
MaxRefs == 1
\* records in the list a Spectrum is constructed from
MaxData == 2

\* amplitude 1.0 in amplitude units: the upper limit of Harmonic.validate
AmpOne == 2
\* 2 * Math.PI in phase units: the exclusive upper limit of Harmonic.validate
TwoPi == 4

\* NaN, written as a number no amplitude and no product reaches; every
\* comparison with it is false
NaN == -(AmpOne * AmpOne + 1)
IsNaN(a) == a = NaN
\* the numbers Infinity, -Infinity and NaN as scale factors <<p, q>>
Infinity == <<1, 0>>
MinusInfinity == <<-1, 0>>
NaNFactor == <<0, 0>>

\* --------------------------------------------------------- fraction.js
Abs(x) == IF x < 0 THEN -x ELSE x

Sign(x) == IF x < 0 THEN -1 ELSE IF x = 0 THEN 0 ELSE 1

RECURSIVE Gcd(_, _)
Gcd(a, b) == IF b = 0 THEN a ELSE Gcd(b, a % b)

\* a FractionInput is a numerator/denominator pair <<n, d>>: the array [n, d],
\* the object {n, d}, the string "n/d", or the number n when d = 1
Parses(in) == in[2] # 0

\* new Fraction(in): reduced to lowest terms, the sign carried by the numerator
Fraction(in) ==
    LET g == Gcd(Abs(in[1]), Abs(in[2]))
        sg == Sign(in[1]) * Sign(in[2])
    IN  <<sg * (Abs(in[1]) \div g), Abs(in[2]) \div g>>

\* Fraction.toFraction(): "n/d", or "n" for a whole number
ToFraction(f) ==
    IF f[2] = 1 THEN ToString(f[1]) ELSE ToString(f[1]) \o "/" \o ToString(f[2])

\* Fraction.compare(other): the sign of this - other
Compare(f, g) == Sign(f[1] * g[2] - g[1] * f[2])

\* Fraction.mul(other)
Mul(f, g) == Fraction(<<f[1] * g[1], f[2] * g[2]>>)

\* Fraction.inverse(): d/n, defined for a non-zero fraction
Inverse(f) == Fraction(<<f[2], f[1]>>)

Zero == <<0, 1>>
One == <<1, 1>>

\* the frequencies the model stores: |n| <= MaxNum, d <= MaxDen
InRange(f) == Abs(f[1]) <= MaxNum /\ f[2] <= MaxDen

\* ------------------------------------------------------------------ state
VARIABLES
    heap,       \* Harmonic objects: identity -> [frequency, amplitude, phase]
    harmonics,  \* per Spectrum variable, its Map: a sequence of [key, h] entries
    refs,       \* identities of the Harmonic objects the caller holds
    origin,     \* per Spectrum variable, the variable it was cloned from, or 0
    ratios,     \* the Map of the caller's IntervalSet: a sequence of [key, f] entries
    needsMorePoints,  \* a densify is at the head of its while loop
    maxGapRatio,      \* the threshold of the running densify
    ret         \* the last call: [op, ok, s, t, h, r, val, out, args]

vars == <<heap, harmonics, refs, origin, ratios, needsMorePoints, maxGapRatio, ret>>

Ids == 1 .. MaxObj
Spectra == 1 .. MaxSpectra

\* the part of the state the operations work on
Store == [heap |-> heap, harmonics |-> harmonics, refs |-> refs]

\* what an operation hands back: the store it leaves, whether it returned (ok)
\* or threw, its return value, whether it ran out of heap cells, and what the
\* caller read from a Spectrum it did not keep (out)
Outcome(st, ok, val) == [st |-> st, ok |-> ok, val |-> val, oom |-> FALSE, out |-> {}]
NoCell(st) == [st |-> st, ok |-> FALSE, val |-> 0, oom |-> TRUE, out |-> {}]

\* the identities stored in a Map
Stored(m) == {m[i].h : i \in 1 .. Len(m)}

\* an object no reference leads to is gone; roots: the caller's references, every
\* Spectrum's Map, and the locals of the running call (keep)
Collect(st, keep) ==
    LET live == st.refs \cup keep \cup UNION {Stored(st.harmonics[s]) : s \in Spectra}
    IN  [st EXCEPT !.heap = [i \in (DOMAIN st.heap) \cap live |-> st.heap[i]]]

\* An object's identity is observable only by comparing references, so between
\* calls the objects are numbered in the order the Maps and then the caller's
\* references reach them.
RECURSIVE Ascending(_)
Ascending(set) ==
    IF set = {} THEN <<>>
    ELSE LET m == CHOOSE i \in set : \A j \in set : i <= j
         IN  <<m>> \o Ascending(set \ {m})

RECURSIVE ReachOrder(_, _)
ReachOrder(st, s) ==
    IF s > MaxSpectra THEN Ascending(st.refs)
    ELSE [i \in 1 .. Len(st.harmonics[s]) |-> st.harmonics[s][i].h] \o ReachOrder(st, s + 1)

RECURSIVE FirstSeen(_, _)
FirstSeen(q, seen) ==
    IF q = <<>> THEN <<>>
    ELSE IF Head(q) \in seen THEN FirstSeen(Tail(q), seen)
    ELSE <<Head(q)>> \o FirstSeen(Tail(q), seen \cup {Head(q)})

Renumbered(st) ==
    LET order == FirstSeen(ReachOrder(st, 1), {})
        rank == [id \in {order[n] : n \in 1 .. Len(order)} |->
                    CHOOSE n \in 1 .. Len(order) : order[n] = id]
    IN  IF \A n \in 1 .. Len(order) : order[n] = n THEN st
        ELSE [heap |-> [n \in 1 .. Len(order) |-> st.heap[order[n]]],
              harmonics |-> [s \in Spectra |->
                               [i \in 1 .. Len(st.harmonics[s]) |->
                                   [key |-> st.harmonics[s][i].key,
                                    h |-> rank[st.harmonics[s][i].h]]]],
              refs |-> {rank[id] : id \in st.refs}]

FreeIds(st) == Ids \ DOMAIN st.heap

\* the cell a new object gets
NewId(st) == CHOOSE i \in FreeIds(st) : \A j \in FreeIds(st) : i <= j

Extend(h, i, rec) == [j \in (DOMAIN h) \cup {i} |-> IF j = i THEN rec ELSE h[j]]

\* ---------------------------------------------------------------- Harmonic
\* Harmonic.validate: the first failing check throws
Validate(h) ==
    /\ Compare(h.frequency, Zero) > 0
    /\ ~(~IsNaN(h.amplitude) /\ (h.amplitude < 0 \/ h.amplitude > AmpOne))
    /\ ~(h.phase < 0 \/ h.phase >= TwoPi)

\* get frequencyStr
FrequencyStr(h) == ToFraction(h.frequency)

\* new Harmonic(frequency, amplitude, phase) and new Harmonic(data): the fields
\* are assigned, then validated; a throwing constructor leaves no object
HarmonicNew(st, in, amplitude, phase) ==
    IF ~Parses(in) THEN Outcome(st, FALSE, 0)
    ELSE LET h == [frequency |-> Fraction(in), amplitude |-> amplitude, phase |-> phase]
         IN  IF ~Validate(h) THEN Outcome(st, FALSE, 0)
             ELSE IF FreeIds(st) = {} THEN NoCell(st)
             ELSE Outcome([st EXCEPT !.heap = Extend(st.heap, NewId(st), h)], TRUE, NewId(st))

\* Harmonic.setFrequency: assigns, then checks
HarmonicSetFrequency(st, id, in) ==
    IF ~Parses(in) THEN Outcome(st, FALSE, 0)
    ELSE LET st1 == [st EXCEPT !.heap[id].frequency = Fraction(in)]
         IN  IF Compare(st1.heap[id].frequency, Zero) <= 0
             THEN Outcome(st1, FALSE, 0)
             ELSE Outcome(st1, TRUE, id)

\* Harmonic.setAmplitude: checks, then assigns
HarmonicSetAmplitude(st, id, amplitude) ==
    IF ~IsNaN(amplitude) /\ (amplitude < 0 \/ amplitude > AmpOne)
    THEN Outcome(st, FALSE, 0)
    ELSE Outcome([st EXCEPT !.heap[id].amplitude = amplitude], TRUE, id)

\* Harmonic.setPhase: checks, then assigns
HarmonicSetPhase(st, id, phase) ==
    IF phase < 0 \/ phase >= TwoPi THEN Outcome(st, FALSE, 0)
    ELSE Outcome([st EXCEPT !.heap[id].phase = phase], TRUE, id)

\* Harmonic.transpose: frequency = frequency.mul(ratio), no check
HarmonicTranspose(st, id, in) ==
    IF ~Parses(in) THEN Outcome(st, FALSE, 0)
    ELSE Outcome([st EXCEPT !.heap[id].frequency = Mul(@, Fraction(in))], TRUE, id)

\* Math.max(0, Math.min(1, amplitude * factor)), the factor a pair <<p, q>>:
\* Math.min and Math.max return NaN for a NaN argument; the product is NaN for
\* a NaN operand and for 0 times an infinity, and an infinity of the operands'
\* signs for another amplitude times an infinity
Clamp(a) == IF IsNaN(a) THEN NaN ELSE IF a < 0 THEN 0 ELSE IF a > AmpOne THEN AmpOne ELSE a
Scaled(a, factor) ==
    IF IsNaN(a) \/ factor = NaNFactor THEN NaN
    ELSE IF factor[2] = 0
         THEN IF a = 0 THEN NaN ELSE IF Sign(a) * factor[1] > 0 THEN AmpOne ELSE 0
         ELSE Clamp((a * factor[1]) \div factor[2])
\* the products the model's amplitude units hold exactly
Scalable(a, factor) ==
    IF IsNaN(a) \/ factor[2] = 0 THEN TRUE ELSE (a * factor[1]) % factor[2] = 0

\* Harmonic.scale
HarmonicScale(st, id, factor) ==
    Outcome([st EXCEPT !.heap[id].amplitude = Scaled(@, factor)], TRUE, id)

\* Harmonic.clone: new Harmonic(frequency, amplitude, phase), validated again
HarmonicClone(st, id) ==
    LET h == st.heap[id]
    IN  IF ~Validate(h) THEN Outcome(st, FALSE, 0)
        ELSE IF FreeIds(st) = {} THEN NoCell(st)
        ELSE Outcome([st EXCEPT !.heap = Extend(st.heap, NewId(st), h)], TRUE, NewId(st))

\* Harmonic.toTransposed: this.clone().transpose(ratio)
HarmonicToTransposed(st, id, in) ==
    LET c == HarmonicClone(st, id)
    IN  IF ~c.ok THEN c ELSE HarmonicTranspose(c.st, c.val, in)

\* ------------------------------------------------------- Map<string, Harmonic>
\* the position of a key in the Map, 0 when absent
MapIndex(m, k) ==
    IF \E i \in 1 .. Len(m) : m[i].key = k
    THEN CHOOSE i \in 1 .. Len(m) : m[i].key = k
    ELSE 0

MapHas(m, k) == MapIndex(m, k) # 0

\* Map.get: the stored reference, 0 for undefined
MapGet(m, k) == IF MapHas(m, k) THEN m[MapIndex(m, k)].h ELSE 0

\* Map.set: an existing key keeps its position, a new key goes last
MapSet(m, k, id) ==
    IF MapHas(m, k)
    THEN [m EXCEPT ![MapIndex(m, k)] = [key |-> k, h |-> id]]
    ELSE Append(m, [key |-> k, h |-> id])

\* Map.delete
MapDelete(m, k) ==
    IF MapHas(m, k)
    THEN SubSeq(m, 1, MapIndex(m, k) - 1) \o SubSeq(m, MapIndex(m, k) + 1, Len(m))
    ELSE m

\* ---------------------------------------------------------------- Spectrum
\* what a Spectrum shows of itself: per key, the stored harmonic's fields
Entries(hp, m) == {[key |-> m[i].key, harmonic |-> hp[m[i].h]] : i \in 1 .. Len(m)}

\* the canonical frequencies of the stored harmonics
Frequencies(hp, m) == {FrequencyStr(hp[m[i].h]) : i \in 1 .. Len(m)}

\* every stored harmonic has a positive frequency
AllPositive(hp, m) == \A i \in 1 .. Len(m) : Compare(hp[m[i].h].frequency, Zero) > 0

\* an argument that is a Harmonic (by reference) or a FractionInput
ArgH(id) == [isHarmonic |-> TRUE, id |-> id, in |-> Zero]
ArgF(in) == [isHarmonic |-> FALSE, id |-> 0, in |-> in]

\* a key taken from the input as it is spelled, without reducing it
KeyOfSpelled(st, x) ==
    IF x.isHarmonic THEN FrequencyStr(st.heap[x.id]) ELSE ToFraction(x.in)

\* the key get/has/remove look up: harmonic.frequencyStr, or
\* new Fraction(input).toFraction()
KeyParses(x) == x.isHarmonic \/ Parses(x.in)
KeyOf(st, x) ==
    IF x.isHarmonic THEN FrequencyStr(st.heap[x.id]) ELSE ToFraction(Fraction(x.in))

\* an addHarmonic that keeps the entry a key already has
SpectrumAddHarmonicIfAbsent(st, s, id) ==
    IF MapHas(st.harmonics[s], FrequencyStr(st.heap[id]))
    THEN Outcome(st, TRUE, s)
    ELSE Outcome([st EXCEPT !.harmonics[s] = MapSet(@, FrequencyStr(st.heap[id]), id)],
                 TRUE, s)

\* Spectrum.addHarmonic
SpectrumAddHarmonic(st, s, id) ==
    Outcome([st EXCEPT !.harmonics[s] = MapSet(@, FrequencyStr(st.heap[id]), id)], TRUE, s)

\* Spectrum.add(harmonic)
SpectrumAddInstance(st, s, id) == SpectrumAddHarmonic(st, s, id)

\* Spectrum.add(data) and Spectrum.add(frequency, amplitude, phase): a new
\* Harmonic is constructed and stored
SpectrumAddNew(st, s, in, amplitude, phase) ==
    LET n == HarmonicNew(st, in, amplitude, phase)
    IN  IF ~n.ok THEN n ELSE SpectrumAddHarmonic(n.st, s, n.val)

\* Spectrum.get
SpectrumGet(st, s, x) ==
    IF ~KeyParses(x) THEN Outcome(st, FALSE, 0)
    ELSE Outcome(st, TRUE, MapGet(st.harmonics[s], KeyOf(st, x)))

\* Spectrum.has
SpectrumHas(st, s, x) ==
    IF ~KeyParses(x) THEN Outcome(st, FALSE, FALSE)
    ELSE Outcome(st, TRUE, MapHas(st.harmonics[s], KeyOf(st, x)))

\* Spectrum.remove
SpectrumRemove(st, s, x) ==
    IF ~KeyParses(x) THEN Outcome(st, FALSE, 0)
    ELSE Outcome([st EXCEPT !.harmonics[s] = MapDelete(@, KeyOf(st, x))], TRUE, s)

\* Spectrum.clear
SpectrumClear(st, s) == Outcome([st EXCEPT !.harmonics[s] = <<>>], TRUE, s)

\* Array.prototype.sort with compareFrequency: stable, ascending by frequency
RECURSIVE InsertSorted(_, _, _)
InsertSorted(heapOf, sorted, id) ==
    IF sorted = <<>> THEN <<id>>
    ELSE IF Compare(heapOf[sorted[Len(sorted)]].frequency, heapOf[id].frequency) <= 0
         THEN Append(sorted, id)
         ELSE Append(InsertSorted(heapOf, SubSeq(sorted, 1, Len(sorted) - 1), id),
                     sorted[Len(sorted)])

RECURSIVE SortValues(_, _)
SortValues(heapOf, m) ==
    IF m = <<>> THEN <<>>
    ELSE InsertSorted(heapOf, SortValues(heapOf, SubSeq(m, 1, Len(m) - 1)), m[Len(m)].h)

\* Spectrum.getHarmonics: the stored references, sorted
SpectrumGetHarmonics(st, s) == SortValues(st.heap, st.harmonics[s])

\* a transposeHarmonic that sets the new key and leaves the old one in place
SpectrumTransposeHarmonicKeepingOld(st, s, x, ratio) ==
    LET g == SpectrumGet(st, s, x)
    IN  IF ~g.ok THEN Outcome(st, FALSE, 0)
        ELSE IF g.val = 0 THEN Outcome(st, TRUE, s)
        ELSE LET n == HarmonicToTransposed(st, g.val, ratio)
             IN  IF ~n.ok THEN n
                 ELSE Outcome([n.st EXCEPT !.harmonics[s] =
                                   MapSet(@, FrequencyStr(n.st.heap[n.val]), n.val)],
                              TRUE, s)

\* a transposeHarmonic that transposes the stored harmonic where it is
SpectrumTransposeHarmonicInPlace(st, s, x, ratio) ==
    LET g == SpectrumGet(st, s, x)
    IN  IF ~g.ok THEN Outcome(st, FALSE, 0)
        ELSE IF g.val = 0 THEN Outcome(st, TRUE, s)
        ELSE LET n == HarmonicTranspose(st, g.val, ratio)
             IN  IF ~n.ok THEN n ELSE Outcome(n.st, TRUE, s)

\* a transposeHarmonic that deletes and sets also when the key stays
SpectrumTransposeHarmonicAlways(st, s, x, ratio) ==
    LET g == SpectrumGet(st, s, x)
    IN  IF ~g.ok THEN Outcome(st, FALSE, 0)
        ELSE IF g.val = 0 THEN Outcome(st, TRUE, s)
        ELSE LET oldKey == FrequencyStr(st.heap[g.val])
                 n == HarmonicToTransposed(st, g.val, ratio)
             IN  IF ~n.ok THEN n
                 ELSE Outcome([n.st EXCEPT !.harmonics[s] =
                                   MapSet(MapDelete(@, oldKey),
                                          FrequencyStr(n.st.heap[n.val]), n.val)],
                              TRUE, s)

\* Spectrum.transposeHarmonic: look the harmonic up, transpose a copy of it,
\* delete the old key and set the new one
SpectrumTransposeHarmonic(st, s, x, ratio) ==
    LET g == SpectrumGet(st, s, x)
    IN  IF ~g.ok THEN Outcome(st, FALSE, 0)
        ELSE IF g.val = 0 THEN Outcome(st, TRUE, s)
        ELSE LET oldKey == FrequencyStr(st.heap[g.val])
                 n == HarmonicToTransposed(st, g.val, ratio)
             IN  IF ~n.ok THEN n
                 ELSE LET newKey == FrequencyStr(n.st.heap[n.val])
                      IN  IF oldKey = newKey THEN Outcome(n.st, TRUE, s)
                          ELSE Outcome([n.st EXCEPT !.harmonics[s] =
                                            MapSet(MapDelete(@, oldKey), newKey, n.val)],
                                       TRUE, s)

Reverse(q) == [i \in 1 .. Len(q) |-> q[Len(q) + 1 - i]]
Range(q) == {q[i] : i \in 1 .. Len(q)}

\* the loop of Spectrum.transpose over allHarmonics in the chosen order; the
\* array elements still to come stay referenced
RECURSIVE TransposeLoop(_, _, _, _)
TransposeLoop(st, s, order, r) ==
    IF order = <<>> THEN Outcome(st, TRUE, s)
    ELSE LET o == SpectrumTransposeHarmonic(st, s, ArgH(Head(order)), r)
         IN  IF ~o.ok THEN o
             ELSE TransposeLoop(Collect(o.st, Range(Tail(order))), s, Tail(order), r)

\* an order that is ascending whatever the ratio
TransposeOrderAscending(st, s, r) == SpectrumGetHarmonics(st, s)

\* an order that is descending whatever the ratio
TransposeOrderDescending(st, s, r) == Reverse(SpectrumGetHarmonics(st, s))

\* the order Spectrum.transpose visits the sorted harmonics in: from the highest
\* down when transposing up, from the lowest up otherwise
TransposeOrder(st, s, r) ==
    IF Compare(r, One) > 0
    THEN Reverse(SpectrumGetHarmonics(st, s))
    ELSE SpectrumGetHarmonics(st, s)

\* a transpose that takes any ratio
SpectrumTransposeUnchecked(st, s, ratio) ==
    IF ~Parses(ratio) THEN Outcome(st, FALSE, 0)
    ELSE LET r == Fraction(ratio)
         IN  IF Compare(r, One) = 0 THEN Outcome(st, TRUE, s)
             ELSE TransposeLoop(st, s, TransposeOrder(st, s, r), r)

\* a transpose that refuses every ratio up to 1
SpectrumTransposeAboveOne(st, s, ratio) ==
    IF ~Parses(ratio) THEN Outcome(st, FALSE, 0)
    ELSE LET r == Fraction(ratio)
         IN  IF Compare(r, One) <= 0 THEN Outcome(st, FALSE, 0)
             ELSE TransposeLoop(st, s, TransposeOrder(st, s, r), r)

\* Spectrum.transpose
SpectrumTranspose(st, s, ratio) ==
    IF ~Parses(ratio) THEN Outcome(st, FALSE, 0)
    ELSE LET r == Fraction(ratio)
         IN  IF Compare(r, One) = 0 THEN Outcome(st, TRUE, s)
             ELSE IF Compare(r, Zero) <= 0 THEN Outcome(st, FALSE, 0)
             ELSE TransposeLoop(st, s, TransposeOrder(st, s, r), r)

\* Spectrum.scaleAmplitudes: harmonic.scale(factor) for each value of the Map
RECURSIVE ScaleLoop(_, _, _)
ScaleLoop(st, values, factor) ==
    IF values = <<>> THEN st
    ELSE ScaleLoop(HarmonicScale(st, Head(values).h, factor).st, Tail(values), factor)

SpectrumScaleAmplitudes(st, s, factor) ==
    Outcome(ScaleLoop(st, st.harmonics[s], factor), TRUE, s)

\* a call that builds a new Spectrum builds it in the variable t it will be
\* assigned to; when the call throws, t keeps what it held
Assigned(st0, t, o) ==
    IF o.ok THEN o ELSE [o EXCEPT !.st.harmonics[t] = st0.harmonics[t]]

\* the loop of Spectrum.clone: copy.addHarmonic(harmonic.clone())
RECURSIVE CloneLoop(_, _, _)
CloneLoop(st, t, values) ==
    IF values = <<>> THEN Outcome(st, TRUE, t)
    ELSE LET c == HarmonicClone(st, Head(values).h)
         IN  IF ~c.ok THEN c
             ELSE CloneLoop(SpectrumAddHarmonic(c.st, t, c.val).st, t, Tail(values))

\* t = s.clone()
SpectrumClone(st, s, t) ==
    Assigned(st, t, CloneLoop([st EXCEPT !.harmonics[t] = <<>>], t, st.harmonics[s]))

\* t = s.toTransposed(ratio): this.clone().transpose(ratio)
SpectrumToTransposed(st, s, t, ratio) ==
    LET c == SpectrumClone(st, s, t)
    IN  IF ~c.ok THEN c ELSE Assigned(st, t, SpectrumTranspose(c.st, t, ratio))

\* the loop of new Spectrum(data): addHarmonic(new Harmonic(harmonicData))
RECURSIVE DataLoop(_, _, _)
DataLoop(st, t, data) ==
    IF data = <<>> THEN Outcome(st, TRUE, t)
    ELSE LET a == SpectrumAddNew(st, t, Head(data).frequency, Head(data).amplitude,
                                 Head(data).phase)
         IN  IF ~a.ok THEN a ELSE DataLoop(a.st, t, Tail(data))

\* t = new Spectrum(data)
SpectrumNew(st, t, data) ==
    Assigned(st, t, DataLoop([st EXCEPT !.harmonics[t] = <<>>], t, data))

\* t = Spectrum.fromFrequencies(frequencies, amplitudes, phases): a missing
\* amplitude is 1, a missing phase 0
FromFrequenciesData(frequencies, amplitudes, phases) ==
    [i \in 1 .. Len(frequencies) |->
        [frequency |-> frequencies[i],
         amplitude |-> IF i <= Len(amplitudes) THEN amplitudes[i] ELSE AmpOne,
         phase |-> IF i <= Len(phases) THEN phases[i] ELSE 0]]

SpectrumFromFrequencies(st, t, frequencies, amplitudes, phases) ==
    Assigned(st, t, DataLoop([st EXCEPT !.harmonics[t] = <<>>], t,
                             FromFrequenciesData(frequencies, amplitudes, phases)))

\* t = s.clone().transpose(ratio).transpose(1/ratio), the inverse taken by
\* Fraction.inverse()
SpectrumRoundTrip(st, s, t, ratio) ==
    LET c == SpectrumClone(st, s, t)
    IN  IF ~c.ok THEN c
        ELSE LET a == SpectrumTranspose(c.st, t, ratio)
             IN  IF ~a.ok THEN Assigned(st, t, a)
                 ELSE Assigned(st, t, SpectrumTranspose(a.st, t, Inverse(Fraction(ratio))))

\* ----------------------------------------------------------------- actions
\* Each action is one call of the caller's program; its inputs are drawn from the
\* sets it is given: S and T the Spectrum variables, F frequencies, A
\* amplitudes, P phases, R ratios, K scale factors.

NoRatio == Zero

RatioOf(in) == IF Parses(in) THEN Fraction(in) ELSE NoRatio

\* the arguments get, has, remove and transposeHarmonic take: a Harmonic the
\* caller holds, or a frequency
KeyArgs(F) == {ArgH(id) : id \in refs} \cup {ArgF(in) : in \in F}

\* the calls whose result the caller assigns to the variable t: a copy of s, or
\* (s = 0) a Spectrum constructed from data or from the IntervalSet
AssignsSpectrum ==
    {"clone", "toTransposed", "new Spectrum", "fromFrequencies", "toSpectrum"}

\* the calls that return a Spectrum: the receiver, or the new one held by t
ReturnsSpectrum ==
    {"add", "remove", "clear", "transposeHarmonic", "transpose", "scaleAmplitudes",
     "clone", "toTransposed", "roundTrip", "new Spectrum", "fromFrequencies",
     "toSpectrum"}

\* the calls whose returned value the caller reads: a Spectrum, or the boolean
\* of has
ReturnsValue == ReturnsSpectrum \cup {"has"}

\* the end of every call: unreachable objects are gone, the outcome is recorded;
\* a call is taken only when the heap has the cells it needs, the caller holds no
\* more than MaxRefs references, no Spectrum more than MaxSize entries, and every
\* frequency stays within the model's range; args are the harmonic records an
\* adding call was given, or the argument of get, has and remove
Called(o, op, s, t, h, r, args) ==
    \E done \in {o} :
        /\ ~done.oom
        /\ \E st \in {Renumbered(Collect(done.st, {}))} :
               /\ \A i \in DOMAIN st.heap : InRange(st.heap[i].frequency)
               /\ \A v \in Spectra : Len(st.harmonics[v]) <= MaxSize
               /\ Cardinality(st.refs) <= MaxRefs
               /\ heap' = st.heap
               /\ harmonics' = st.harmonics
               /\ refs' = st.refs
        /\ ratios' = ratios
        /\ ~needsMorePoints
        /\ UNCHANGED <<needsMorePoints, maxGapRatio>>
        /\ origin' = IF done.ok /\ op \in AssignsSpectrum
                     THEN [v \in Spectra |->
                              IF v = t THEN s ELSE IF origin[v] = t THEN 0 ELSE origin[v]]
                     ELSE origin
        /\ ret' = [op |-> op, ok |-> done.ok, s |-> s, t |-> t, h |-> h, r |-> r,
                   val |-> IF done.ok /\ op \in ReturnsValue THEN done.val ELSE 0,
                   out |-> done.out, args |-> args]

\* a call on a Spectrum that adds the records args
FinishWith(o, op, s, t, r, args) == Called(o, op, s, t, 0, r, args)

\* a call on a Spectrum
Finish(o, op, s, t, r) == Called(o, op, s, t, 0, r, <<>>)

\* a call on the Harmonic h
FinishOn(o, op, h, r) == Called(o, op, 0, 0, h, r, <<>>)

\* the caller keeps the reference a call returned
Keeping(o) == IF o.ok /\ o.val # 0 THEN [o EXCEPT !.st.refs = @ \cup {o.val}] ELSE o

\* the caller keeps the reference get returned and reads the harmonic's fields
Returned(o) ==
    [Keeping(o) EXCEPT !.out = IF o.ok /\ o.val # 0 THEN {o.st.heap[o.val]} ELSE {}]

\* h = new Harmonic(frequency, amplitude, phase)
NewHarmonic(F, A, P) ==
    \E in \in F, a \in A, p \in P :
        Finish(Keeping(HarmonicNew(Store, in, a, p)), "new Harmonic", 0, 0, NoRatio)

\* h.setFrequency(frequency)
SetFrequency(F) ==
    \E id \in refs, in \in F :
        FinishOn(HarmonicSetFrequency(Store, id, in), "setFrequency", id, NoRatio)

\* h.setAmplitude(amplitude)
SetAmplitude(A) ==
    \E id \in refs, a \in A :
        FinishOn(HarmonicSetAmplitude(Store, id, a), "setAmplitude", id, NoRatio)

\* h.setPhase(phase)
SetPhase(P) ==
    \E id \in refs, p \in P :
        FinishOn(HarmonicSetPhase(Store, id, p), "setPhase", id, NoRatio)

\* h.transpose(ratio)
TransposeOne(R) ==
    \E id \in refs, in \in R :
        FinishOn(HarmonicTranspose(Store, id, in), "Harmonic.transpose", id, RatioOf(in))

\* h.scale(factor)
ScaleOne(K) ==
    \E id \in refs, f \in K :
        /\ Scalable(heap[id].amplitude, f)
        /\ Called(HarmonicScale(Store, id, f), "scale", 0, 0, id, NoRatio, <<f>>)

\* the caller lets go of a reference
Forget ==
    \E id \in refs :
        Finish(Outcome([Store EXCEPT !.refs = @ \ {id}], TRUE, 0), "forget", 0, 0, NoRatio)

Record(in, a, p) == [frequency |-> in, amplitude |-> a, phase |-> p]

\* the frequency of a Harmonic as the pair a caller would pass
RecordOf(h) == Record(h.frequency, h.amplitude, h.phase)

\* s.add(h)
Add(S) ==
    \E s \in S, id \in refs :
        FinishWith(SpectrumAddInstance(Store, s, id), "add", s, 0, NoRatio,
                   <<RecordOf(heap[id])>>)

\* s.add({frequency, amplitude, phase})
AddData(S, F, A, P) ==
    \E s \in S, in \in F, a \in A, p \in P :
        FinishWith(SpectrumAddNew(Store, s, in, a, p), "add", s, 0, NoRatio,
                   <<Record(in, a, p)>>)

\* s.add(frequency, amplitude): the phase defaults to 0
AddRatio(S, F, A) ==
    \E s \in S, in \in F, a \in A :
        FinishWith(SpectrumAddNew(Store, s, in, a, 0), "add", s, 0, NoRatio,
                   <<Record(in, a, 0)>>)

\* h = s.get(x)
Get(S, F) ==
    \E s \in S, x \in KeyArgs(F) :
        FinishWith(Returned(SpectrumGet(Store, s, x)), "get", s, 0, NoRatio, <<x>>)

\* s.has(x)
Has(S, F) ==
    \E s \in S, x \in KeyArgs(F) :
        FinishWith(SpectrumHas(Store, s, x), "has", s, 0, NoRatio, <<x>>)

\* s.remove(x)
Remove(S, F) ==
    \E s \in S, x \in KeyArgs(F) :
        FinishWith(SpectrumRemove(Store, s, x), "remove", s, 0, NoRatio, <<x>>)

\* s.clear()
Clear(S) ==
    \E s \in S :
        Finish(SpectrumClear(Store, s), "clear", s, 0, NoRatio)

\* s.transposeHarmonic(x, ratio)
TransposeHarmonic(S, F, R) ==
    \E s \in S, x \in KeyArgs(F), in \in R :
        FinishWith(SpectrumTransposeHarmonic(Store, s, x, in), "transposeHarmonic", s, 0,
                   RatioOf(in), <<x, ArgF(in)>>)

\* s.transpose(ratio)
Transpose(S, R) ==
    \E s \in S, in \in R :
        Finish(SpectrumTranspose(Store, s, in), "transpose", s, 0, RatioOf(in))

\* s.scaleAmplitudes(factor)
ScaleAmplitudes(S, K) ==
    \E s \in S, f \in K :
        /\ \A i \in 1 .. Len(harmonics[s]) : Scalable(heap[harmonics[s][i].h].amplitude, f)
        /\ FinishWith(SpectrumScaleAmplitudes(Store, s, f), "scaleAmplitudes", s, 0,
                      NoRatio, <<f>>)

\* t = s.clone()
Clone(S, T) ==
    \E s \in S, t \in T :
        /\ t # s
        /\ Finish(SpectrumClone(Store, s, t), "clone", s, t, NoRatio)

\* t = s.toTransposed(ratio)
ToTransposed(S, T, R) ==
    \E s \in S, t \in T, in \in R :
        /\ t # s
        /\ Finish(SpectrumToTransposed(Store, s, t, in), "toTransposed", s, t, RatioOf(in))

\* the caller reads the canonical frequencies of the Spectrum a call returned in
\* t and does not keep it: t holds what it held
Observed(st0, t, o) ==
    [o EXCEPT !.st.harmonics[t] = st0.harmonics[t],
              !.out = IF o.ok THEN Frequencies(o.st.heap, o.st.harmonics[t]) ELSE {}]

\* s.clone().transpose(ratio).transpose(1/ratio), for a ratio other than 0; the
\* result is built in t, read and dropped
RoundTrip(S, T, R) ==
    \E s \in S, t \in T, in \in R :
        /\ t # s
        /\ Parses(in) /\ Fraction(in) # Zero
        /\ Finish(Observed(Store, t, SpectrumRoundTrip(Store, s, t, in)), "roundTrip", s, t,
                  RatioOf(in))

\* t = new Spectrum(data), data a list of up to MaxData records
DataLists(F, A, P) ==
    UNION {[1 .. n -> [frequency : F, amplitude : A, phase : P]] : n \in 0 .. MaxData}

NewSpectrum(T, F, A, P) ==
    \E t \in T, data \in DataLists(F, A, P) :
        FinishWith(SpectrumNew(Store, t, data), "new Spectrum", 0, t, NoRatio, data)

\* t = Spectrum.fromFrequencies(frequencies, amplitudes): the amplitudes may be
\* fewer than the frequencies, the phases are left out
FromFrequencies(T, F, A) ==
    \E t \in T, n \in 0 .. MaxData :
        \E frequencies \in [1 .. n -> F], k \in 0 .. n :
            \E amplitudes \in [1 .. k -> A] :
                FinishWith(SpectrumFromFrequencies(Store, t, frequencies, amplitudes, <<>>),
                           "fromFrequencies", 0, t, NoRatio,
                           FromFrequenciesData(frequencies, amplitudes, <<>>))

Init ==
    /\ heap = <<>>
    /\ harmonics = [s \in Spectra |-> <<>>]
    /\ refs = {}
    /\ origin = [s \in Spectra |-> 0]
    /\ ratios = <<>>
    /\ needsMorePoints = FALSE
    /\ maxGapRatio = One
    /\ ret = [op |-> "new Spectrum", ok |-> TRUE, s |-> 0, t |-> 0, h |-> 0, r |-> NoRatio,
              val |-> 0, out |-> {}, args |-> <<>>]

\* ------------------------------------------------------------------ inputs
\* frequencies the caller passes: whole numbers, a fraction in two spellings
\* (3/2 and 6/4), zero, a negative, and a pair fraction.js rejects (1/0)
FrequencyInputs == {<<1, 1>>, <<2, 1>>, <<3, 2>>, <<6, 4>>, <<0, 1>>, <<-1, 1>>, <<1, 0>>}

\* ratios the caller transposes by: up, down, unison in two spellings, zero and
\* a negative
RatioInputs == {<<2, 1>>, <<1, 2>>, <<1, 1>>, <<2, 2>>, <<0, 1>>, <<-1, 1>>}

\* amplitudes: two inside [0, 1], one below, one above
AmplitudeInputs == {1, AmpOne, -1, AmpOne + 1}

\* phases: two inside [0, 2 pi), one below, 2 pi itself
PhaseInputs == {0, 1, -1, TwoPi}

\* scale factors: zero, a half, two, a negative
FactorInputs == {<<0, 1>>, <<1, 2>>, <<2, 1>>, <<-1, 1>>}

\* ------------------------------------------------- a Harmonic on its own
NextHarmonic ==
    \/ NewHarmonic(FrequencyInputs, AmplitudeInputs, PhaseInputs)
    \/ SetFrequency(FrequencyInputs)
    \/ SetAmplitude(AmplitudeInputs)
    \/ SetPhase(PhaseInputs)
    \/ TransposeOne(RatioInputs)
    \/ ScaleOne(FactorInputs)
    \/ Forget

SpecHarmonic == Init /\ [][NextHarmonic]_vars

\* C7: in every reachable state every Harmonic has a strictly positive
\* frequency, an amplitude in [0, 1] and a phase in [0, 2 pi), whether the calls
\* made on it returned or threw.
C7_HarmonicInvariants == \A id \in DOMAIN heap : Validate(heap[id])

\* C8: a Harmonic setter that throws leaves the frequency, the amplitude and the
\* phase of every Harmonic as they were before the call.
C8_FailingSetterKeepsState ==
    [][(ret'.op \in {"setFrequency", "setAmplitude", "setPhase"} /\ ~ret'.ok)
        => heap' = heap]_vars

\* ------------------------------------------- transposing a Spectrum
\* Spectrum 1 is built by add and changed by the Spectrum's own operations;
\* Spectrum variable 2 receives the copies.
Receiver == {1}
Copy == {2}

NextTranspose ==
    \/ AddRatio(Receiver, {<<1, 1>>, <<2, 1>>, <<6, 4>>, <<0, 1>>}, {1})
    \/ AddData(Receiver, {<<1, 1>>, <<2, 1>>, <<3, 2>>}, {AmpOne}, {1, TwoPi})
    \/ TransposeHarmonic(Receiver, {<<1, 1>>, <<4, 2>>}, {<<0, 1>>})
    \/ Transpose(Receiver, RatioInputs)
    \/ RoundTrip(Receiver, Copy, RatioInputs)

SpecTranspose == Init /\ [][NextTranspose]_vars

C4_TransposeUnisonNoOp ==
    [][(ret'.op = "transpose" /\ ret'.r = One)
        => /\ ret'.ok
           /\ ret'.val = ret'.s
           /\ harmonics' = harmonics
           /\ heap' = heap]_vars

\* C4 witness: transpose by unison returned on a spectrum of two harmonics
C4_Witness ==
    /\ ret.op = "transpose" /\ ret.ok /\ ret.r = One /\ ret.val = ret.s
    /\ Len(harmonics[ret.s]) >= 2

\* --------------------------------------------------- adding to a Spectrum
\* Spectrum 1 is filled by add in its three forms, by the constructor from a
\* record list and by fromFrequencies, and by nothing else.
NextAdd ==
    \/ NewHarmonic({<<3, 2>>, <<2, 1>>}, {1}, {1})
    \/ Forget
    \/ Add(Receiver)
    \/ AddData(Receiver, {<<1, 1>>, <<3, 2>>, <<0, 1>>}, {AmpOne}, {1})
    \/ AddRatio(Receiver, {<<2, 1>>, <<6, 4>>}, {1, AmpOne + 1})
    \/ NewSpectrum(Receiver, {<<3, 2>>, <<6, 4>>}, {1, AmpOne}, {0})
    \/ FromFrequencies(Receiver, {<<1, 1>>, <<6, 4>>}, {1})

SpecAdd == Init /\ [][NextAdd]_vars

\* two numerator/denominator pairs that are the same rational number
SameRational(a, b) == a[1] * b[2] = b[1] * a[2]

\* the frequencies get is asked for, some in several spellings
ProbeInputs ==
    {<<1, 1>>, <<2, 2>>, <<2, 1>>, <<4, 2>>, <<3, 2>>, <<6, 4>>, <<3, 1>>, <<1, 2>>, <<3, 4>>}

\* the state after the step
StoreNext == [heap |-> heap', harmonics |-> harmonics', refs |-> refs']

\* amplitude and phase of what get returns, <<>> for undefined
Got(st, s, x) ==
    LET g == SpectrumGet(st, s, x).val
    IN  IF g = 0 THEN <<>> ELSE <<st.heap[g].amplitude, st.heap[g].phase>>

\* the last record of a list whose frequency is the rational x
LastOf(data, x) ==
    data[CHOOSE i \in 1 .. Len(data) :
            /\ SameRational(data[i].frequency, x)
            /\ \A j \in i + 1 .. Len(data) : ~SameRational(data[j].frequency, x)]

\* the number of distinct rationals among a set of pairs
Distinct(pairs) == Cardinality({{q \in pairs : SameRational(p, q)} : p \in pairs})

\* the receiver of an adding call, and what it held when the call began: a
\* constructor begins with an empty Spectrum
Target == IF ret'.op = "add" THEN ret'.s ELSE ret'.t
HeldBefore == IF ret'.op = "add" THEN harmonics[ret'.s] ELSE <<>>

\* C5: add is last-write-wins on the rational frequency.  After an adding call
\* (add in its three forms, the record-list constructor, fromFrequencies) the
\* size is the number of distinct rationals held before or added, get of a
\* rational that was added returns the amplitude and phase of the last record
\* added with it, and get of any other rational returns what it did before.
C5_AddLastWriteWins ==
    [][(ret'.op \in {"add", "new Spectrum", "fromFrequencies"} /\ ret'.ok)
        => /\ Len(harmonics'[Target]) =
                  Distinct({heap[HeldBefore[i].h].frequency : i \in 1 .. Len(HeldBefore)}
                           \cup {ret'.args[i].frequency : i \in 1 .. Len(ret'.args)})
           /\ \A x \in ProbeInputs :
                  IF \E i \in 1 .. Len(ret'.args) : SameRational(ret'.args[i].frequency, x)
                  THEN Got(StoreNext, Target, ArgF(x)) =
                           <<LastOf(ret'.args, x).amplitude, LastOf(ret'.args, x).phase>>
                  ELSE Got(StoreNext, Target, ArgF(x)) =
                           IF ret'.op = "add" THEN Got(Store, Target, ArgF(x)) ELSE <<>>]_vars

\* C5 witness: 3/2 was added over an entry 6/4 had made, with other values; the
\* spectrum holds one entry at 3/2 besides another frequency
C5_Witness ==
    /\ ret.op = "add" /\ ret.ok
    /\ ret.args[1].frequency = <<3, 2>> /\ ret.args[1].amplitude = AmpOne
    /\ Len(harmonics[1]) = 2
    /\ MapHas(harmonics[1], "3/2")
    /\ heap[MapGet(harmonics[1], "3/2")].amplitude = AmpOne

\* ------------------------------------------ looking a frequency up
\* Spectrum 1 is filled with Harmonics the caller constructed and with
\* frequencies in several spellings; the caller looks them up by frequency and
\* by Harmonic, and changes the frequency of Harmonics it holds.
KeyInputs == {<<3, 2>>, <<6, 4>>, <<2, 1>>, <<1, 0>>}

NextKeys ==
    \/ NewHarmonic({<<3, 2>>, <<2, 1>>}, {1}, {0})
    \/ Forget
    \/ SetFrequency({<<6, 4>>, <<2, 1>>})
    \/ Add(Receiver)
    \/ AddRatio(Receiver, {<<6, 4>>, <<1, 1>>}, {AmpOne})
    \/ Get(Receiver, KeyInputs)
    \/ Has(Receiver, KeyInputs)
    \/ Remove(Receiver, KeyInputs)

SpecKeys == Init /\ [][NextKeys]_vars

\* every key is the canonical frequency of the harmonic stored under it
WellKeyed(hp, m) == \A i \in 1 .. Len(m) : m[i].key = FrequencyStr(hp[m[i].h])

\* the frequency an argument stands for, as the caller wrote it
ValueOf(hp, x) == IF x.isHarmonic THEN hp[x.id].frequency ELSE x.in

\* the positions of the entries whose harmonic has the rational frequency v
Holding(hp, m, v) == {i \in 1 .. Len(m) : SameRational(hp[m[i].h].frequency, v)}

\* C6: get, has and remove treat a Harmonic argument and every spelling of the
\* same rational alike.  In a Spectrum whose keys are the frequencies of its
\* harmonics, has(x) is true iff a harmonic with x's rational frequency is
\* stored, get(x) returns that stored object or undefined, and remove(x) takes
\* out exactly that entry: the size goes down by one iff it was there and every
\* other entry stays as it was.
C6_KeysResolveAlike ==
    [][(ret'.op \in {"get", "has", "remove"} /\ KeyParses(ret'.args[1]))
        => LET s == ret'.s
               x == ret'.args[1]
               m == harmonics[s]
               at == Holding(heap, m, ValueOf(heap, x))
           IN  /\ ret'.ok
               /\ \A y \in KeyArgs(ProbeInputs) :
                      SameRational(ValueOf(heap, y), ValueOf(heap, x))
                          => /\ SpectrumHas(Store, s, y).val = SpectrumHas(Store, s, x).val
                             /\ SpectrumGet(Store, s, y).val = SpectrumGet(Store, s, x).val
                             /\ SpectrumRemove(Store, s, y).st = SpectrumRemove(Store, s, x).st
               /\ WellKeyed(heap, m)
                      => /\ Cardinality(at) <= 1
                         /\ ret'.op = "has" => ret'.val = (at # {})
                         /\ ret'.op = "get"
                                => /\ ret'.out = {heap[m[i].h] : i \in at}
                                   /\ \A i \in at :
                                          MapGet(harmonics'[s], m[i].key) \in refs'
                         /\ ret'.op \in {"get", "has"}
                                => Entries(heap', harmonics'[s]) = Entries(heap, m)
                         /\ ret'.op = "remove"
                                => /\ ret'.val = s
                                   /\ Len(harmonics'[s]) = Len(m) - Cardinality(at)
                                   /\ Entries(heap', harmonics'[s]) =
                                          {[key |-> m[i].key, harmonic |-> heap[m[i].h]] :
                                               i \in (1 .. Len(m)) \ at}]_vars

\* C6 witness: get(6/4) returned the harmonic stored at 3/2 in a spectrum of two
C6_Witness ==
    /\ ret.op = "get" /\ ret.ok /\ ret.args[1] = ArgF(<<6, 4>>)
    /\ ret.out # {}
    /\ Len(harmonics[1]) = 2
    /\ MapGet(harmonics[1], "3/2") \in refs

\* ------------------------------------- references shared with the caller
\* The caller constructs Harmonics, adds them to either Spectrum, gets stored
\* ones back, calls their setters, and copies Spectrum 1 into variable 2.
Next ==
    \/ NewHarmonic({<<1, 1>>}, {1}, {0})
    \/ Forget
    \/ SetFrequency({<<2, 1>>})
    \/ Add(Spectra)
    \/ Get(Spectra, {<<1, 1>>})
    \/ Remove(Copy, {<<2, 1>>})
    \/ Clone(Receiver, Copy)
    \/ ToTransposed(Receiver, Copy, {<<2, 1>>})
    \/ Transpose(Copy, {<<2, 1>>})
    \/ ScaleAmplitudes(Copy, {<<0, 1>>})

Spec == Init /\ [][Next]_vars

\* the Spectrum slots that hold the object id, and the caller if it holds it
Holders(id) ==
    {p \in Spectra \X (1 .. MaxObj) :
        p[2] <= Len(harmonics[p[1]]) /\ harmonics[p[1]][p[2]].h = id}
        \cup (IF id \in refs THEN {<<0, 0>>} ELSE {})

\* C9: in every reachable state a Harmonic object is held by at most one
\* Spectrum slot or by the caller, never by both and never by two Spectrum slots.
C9_ExclusiveOwnership == \A id \in DOMAIN heap : Cardinality(Holders(id)) <= 1

\* what a Spectrum shows before and after the step
Shown(s) == Entries(heap, harmonics[s])
ShownNext(s) == Entries(heap', harmonics'[s])

\* C10: clone and toTransposed leave the receiver as it was, and no later add,
\* remove, transpose or scaleAmplitudes on a copy or on its original, and no
\* setter call on a harmonic stored in one of them, changes what the other shows:
\* its size, its keys, and the frequency, amplitude and phase of its harmonics.
C10_CopyIndependent ==
    [][/\ ret'.op \in {"clone", "toTransposed"} => ShownNext(ret'.s) = Shown(ret'.s)
       /\ \A a \in Spectra, b \in Spectra :
              (/\ a # b
               /\ origin[a] = b \/ origin[b] = a
               /\ \/ /\ ret'.op \in {"add", "remove", "transpose", "scaleAmplitudes"}
                     /\ ret'.s = a
                  \/ /\ ret'.op \in {"setFrequency", "setAmplitude", "setPhase"}
                     /\ ret'.h \in Stored(harmonics[a]))
                  => ShownNext(b) = Shown(b)]_vars

\* --------------------------------------------------------------- numbers
\* A JavaScript number is a binary floating-point value: a double carries 53
\* significant bits, the model's numbers carry Precision bits and round the same
\* way (to nearest, ties to even).  A number is written as the exact rational
\* it stands for.
Precision == 4

RECURSIVE Pow2(_)
Pow2(k) == IF k = 0 THEN 1 ELSE 2 * Pow2(k - 1)

\* the powers of two <<up, down>> that bring n/d into [2^(Precision-1), 2^Precision)
RECURSIVE Scale(_, _, _, _)
Scale(n, d, up, down) ==
    IF n * up >= Pow2(Precision) * d * down THEN Scale(n, d, up, 2 * down)
    ELSE IF n * up < Pow2(Precision - 1) * d * down THEN Scale(n, d, 2 * up, down)
    ELSE <<up, down>>

\* n/d rounded to the nearest integer, a tie to the even one
RoundHalfEven(n, d) ==
    LET q == n \div d
        r == n % d
    IN  IF 2 * r < d THEN q
        ELSE IF 2 * r > d THEN q + 1
        ELSE IF q % 2 = 0 THEN q ELSE q + 1

\* the number nearest to the rational f
Float(f) ==
    IF f[1] = 0 THEN Zero
    ELSE LET sc == Scale(Abs(f[1]), f[2], 1, 1)
             m == RoundHalfEven(Abs(f[1]) * sc[1], f[2] * sc[2])
         IN  Fraction(<<Sign(f[1]) * m * sc[2], sc[1]>>)

\* Number(n) of a BigInt
NumberOf(n) == Float(<<n, 1>>)[1]

\* ------------------------------------------------------------ serialization
\* Harmonic.toJSON: fraction.js keeps the sign of a fraction in s and its
\* magnitude in n and d; toJSON writes n and d
HarmonicToJSON(h) ==
    Record(<<NumberOf(Abs(h.frequency[1])), NumberOf(h.frequency[2])>>, h.amplitude, h.phase)

\* Spectrum.toJSON: the records of the Map's values, in the Map's order
SpectrumToJSON(hp, m) == [i \in 1 .. Len(m) |-> HarmonicToJSON(hp[m[i].h])]

\* the (canonical frequency, amplitude, phase) triple of a Harmonic
Triple(h) == <<FrequencyStr(h), h.amplitude, h.phase>>

\* the triples of the harmonics a Spectrum holds
Triples(hp, m) == {Triple(hp[m[i].h]) : i \in 1 .. Len(m)}

\* the caller reads the triple of the Harmonic a call returned and drops it
Read(o) == [o EXCEPT !.out = IF o.ok THEN {Triple(o.st.heap[o.val])} ELSE {}]

\* new Harmonic(h.toJSON())
HarmonicFromJSON(st, id) ==
    LET data == HarmonicToJSON(st.heap[id])
    IN  HarmonicNew(st, data.frequency, data.amplitude, data.phase)

\* the caller reads the triples of the Spectrum a call returned in t and does
\* not keep it: t holds what it held
ReadAll(st0, t, o) ==
    [o EXCEPT !.st.harmonics[t] = st0.harmonics[t],
              !.out = IF o.ok THEN Triples(o.st.heap, o.st.harmonics[t]) ELSE {}]

\* new Spectrum(s.toJSON()), built in t
SpectrumFromJSON(st, s, t) == SpectrumNew(st, t, SpectrumToJSON(st.heap, st.harmonics[s]))

\* new Harmonic(h.toJSON()) for a Harmonic the caller holds
HarmonicJSONRoundTrip ==
    \E id \in refs :
        FinishOn(Read(HarmonicFromJSON(Store, id)), "Harmonic.fromJSON", id, NoRatio)

\* new Spectrum(s.toJSON())
SpectrumJSONRoundTrip(S, T) ==
    \E s \in S, t \in T :
        /\ t # s
        /\ Finish(ReadAll(Store, t, SpectrumFromJSON(Store, s, t)), "Spectrum.fromJSON", s, t,
                  NoRatio)

\* The caller constructs Harmonics, transposes them, adds them by reference or
\* as records to Spectrum 1, and serializes and reconstructs either.
NextJSON ==
    \/ NewHarmonic({<<1, 1>>, <<3, 2>>}, {1}, {0})
    \/ Forget
    \/ TransposeOne({<<-1, 1>>})
    \/ Add(Receiver)
    \/ AddRatio(Receiver, {<<6, 4>>}, {AmpOne})
    \/ Clear(Receiver)
    \/ HarmonicJSONRoundTrip
    \/ SpectrumJSONRoundTrip(Receiver, Copy)

SpecJSON == Init /\ [][NextJSON]_vars

\* C11: for any Harmonic h, new Harmonic(h.toJSON()) returns a Harmonic with the
\* canonical frequency, amplitude and phase of h; for any Spectrum S,
\* new Spectrum(S.toJSON()) returns a Spectrum holding exactly the
\* (canonical frequency, amplitude, phase) triples of S.
C11_JSONRoundTrip ==
    [][/\ ret'.op = "Harmonic.fromJSON"
            => ret'.ok /\ ret'.out = {Triple(heap[ret'.h])}
       /\ ret'.op = "Spectrum.fromJSON"
            => ret'.ok /\ ret'.out = Triples(heap, harmonics[ret'.s])]_vars

\* ------------------------------------------------------------ IntervalSet
\* what a call on the IntervalSet hands back: the Map it leaves, whether it
\* returned (ok) or threw, its return value, and what the caller read from a
\* returned list (out)
Answer(m, ok, val) == [m |-> m, ok |-> ok, val |-> val, out |-> {}]

\* undefined, where a Fraction is expected
Undefined == <<0, 0>>

\* a set that appends without looking the key up
RatioSetAppended(m, f) == Append(m, [key |-> ToFraction(f), f |-> f])

\* this.ratios.set(f.toFraction(), f)
RatioSet(m, f) ==
    IF MapHas(m, ToFraction(f))
    THEN [m EXCEPT ![MapIndex(m, ToFraction(f))] = [key |-> ToFraction(f), f |-> f]]
    ELSE Append(m, [key |-> ToFraction(f), f |-> f])

\* IntervalSet.add
IntervalSetAdd(m, in) ==
    IF ~Parses(in) THEN Answer(m, FALSE, 0)
    ELSE Answer(RatioSet(m, Fraction(in)), TRUE, 0)

\* IntervalSet.has
IntervalSetHas(m, in) ==
    IF ~Parses(in) THEN Answer(m, FALSE, FALSE)
    ELSE Answer(m, TRUE, MapHas(m, ToFraction(Fraction(in))))

\* IntervalSet.delete
IntervalSetDelete(m, in) ==
    IF ~Parses(in) THEN Answer(m, FALSE, 0)
    ELSE Answer(MapDelete(m, ToFraction(Fraction(in))), TRUE, 0)

\* IntervalSet.get
IntervalSetGet(m, in) ==
    IF ~Parses(in) THEN Answer(m, FALSE, Undefined)
    ELSE Answer(m, TRUE, IF MapHas(m, ToFraction(Fraction(in)))
                         THEN m[MapIndex(m, ToFraction(Fraction(in)))].f
                         ELSE Undefined)

\* get size
IntervalSetSize(m) == Len(m)

\* this.ratios.values(), in the Map's order
Values(m) == [i \in 1 .. Len(m) |-> m[i].f]

\* Array.prototype.sort with a.compare(b): stable, ascending
RECURSIVE InsertRatio(_, _)
InsertRatio(sorted, f) ==
    IF sorted = <<>> THEN <<f>>
    ELSE IF Compare(sorted[Len(sorted)], f) <= 0 THEN Append(sorted, f)
         ELSE Append(InsertRatio(SubSeq(sorted, 1, Len(sorted) - 1), f), sorted[Len(sorted)])

RECURSIVE SortRatios(_)
SortRatios(q) ==
    IF q = <<>> THEN <<>>
    ELSE InsertRatio(SortRatios(SubSeq(q, 1, Len(q) - 1)), q[Len(q)])

\* a getRatios that returns the values in the Map's order
IntervalSetGetRatiosUnsorted(m) == Values(m)

\* IntervalSet.getRatios
IntervalSetGetRatios(m) == SortRatios(Values(m))

\* IntervalSet.min: getRatios().at(0)
IntervalSetMin(m) ==
    IF IntervalSetGetRatios(m) = <<>> THEN Undefined ELSE IntervalSetGetRatios(m)[1]

\* IntervalSet.max: getRatios().at(-1)
IntervalSetMax(m) ==
    IF IntervalSetGetRatios(m) = <<>> THEN Undefined
    ELSE IntervalSetGetRatios(m)[Len(IntervalSetGetRatios(m))]

\* IntervalSet.clear
IntervalSetClear(m) == Answer(<<>>, TRUE, 0)

\* the loop of new IntervalSet(ratios): this.add(r); a throwing add leaves no
\* object
RECURSIVE AddLoop(_, _)
AddLoop(m, list) ==
    IF list = <<>> THEN Answer(m, TRUE, 0)
    ELSE IF ~IntervalSetAdd(m, Head(list)).ok THEN Answer(m, FALSE, 0)
    ELSE AddLoop(IntervalSetAdd(m, Head(list)).m, Tail(list))

\* new IntervalSet(ratios)
IntervalSetNew(list) == AddLoop(<<>>, list)

\* Spectrum.getLowestHarmonic / getHighestHarmonic: sorted[0] and
\* sorted[sorted.length - 1], 0 for undefined
SpectrumGetLowestHarmonic(st, s) ==
    IF SpectrumGetHarmonics(st, s) = <<>> THEN 0 ELSE SpectrumGetHarmonics(st, s)[1]

SpectrumGetHighestHarmonic(st, s) ==
    IF SpectrumGetHarmonics(st, s) = <<>> THEN 0
    ELSE SpectrumGetHarmonics(st, s)[Len(SpectrumGetHarmonics(st, s))]

\* the end of a call on the IntervalSet: the outcome is recorded
Recorded(o, op, args) ==
    /\ ~needsMorePoints
    /\ ratios' = o.m
    /\ ret' = [op |-> op, ok |-> o.ok, s |-> 0, t |-> 0, h |-> 0, r |-> NoRatio,
               val |-> o.val, out |-> o.out, args |-> args]
    /\ UNCHANGED <<heap, harmonics, refs, origin, needsMorePoints, maxGapRatio>>

\* a call that changes the set is taken only when the set holds no more than
\* MaxSize ratios afterwards, all within the model's range
Answered(o, op, args) ==
    \E done \in {o} :
        /\ Len(done.m) <= MaxSize
        /\ \A i \in 1 .. Len(done.m) : InRange(done.m[i].f)
        /\ Recorded(done, op, args)

\* a constructing call that throws leaves the caller's variable as it was
Made(o) == IF o.ok THEN o ELSE [o EXCEPT !.m = ratios]

\* set.add(ratio)
AddInterval(F) ==
    \E in \in F : Answered(IntervalSetAdd(ratios, in), "IntervalSet.add", <<in>>)

\* set.has(ratio)
HasInterval(F) ==
    \E in \in F : Answered(IntervalSetHas(ratios, in), "IntervalSet.has", <<in>>)

\* set.delete(ratio)
DeleteInterval(F) ==
    \E in \in F : Answered(IntervalSetDelete(ratios, in), "IntervalSet.delete", <<in>>)

\* set.get(ratio)
GetInterval(F) ==
    \E in \in F : Answered(IntervalSetGet(ratios, in), "IntervalSet.get", <<in>>)

\* set.clear()
ClearIntervals == Answered(IntervalSetClear(ratios), "IntervalSet.clear", <<>>)

\* set = new IntervalSet(list), list of up to MaxData ratios
NewIntervalSet(F) ==
    \E n \in 0 .. MaxData :
        \E list \in [1 .. n -> F] :
            Answered(Made(IntervalSetNew(list)), "new IntervalSet", list)

\* ------------------------------------------------------- sorted views
\* The IntervalSet is built by add, delete, clear and the array constructor;
\* Spectrum 1 by add (of ratios and of a Harmonic of the caller), remove,
\* transposeHarmonic and transpose.
NextSorted ==
    \/ NewHarmonic({<<1, 1>>}, {AmpOne}, {0})
    \/ Forget
    \/ Add(Receiver)
    \/ AddInterval({<<2, 1>>, <<6, 4>>, <<1, 1>>})
    \/ DeleteInterval({<<3, 2>>})
    \/ ClearIntervals
    \/ NewIntervalSet({<<2, 1>>, <<1, 1>>})
    \/ AddRatio(Receiver, {<<2, 1>>, <<3, 2>>}, {1})
    \/ Remove(Receiver, {<<2, 1>>})
    \/ TransposeHarmonic(Receiver, {<<3, 2>>}, {<<2, 1>>})
    \/ Transpose(Receiver, {<<2, 1>>})

SpecSorted == Init /\ [][NextSorted]_vars

\* a sequence of ratios in strictly ascending order
StrictlyAscending(q) == \A i \in 1 .. Len(q) - 1 : Compare(q[i], q[i + 1]) < 0

\* the frequencies of a sequence of Harmonic references
FrequenciesOf(hp, q) == [i \in 1 .. Len(q) |-> hp[q[i]].frequency]

\* C12: in every state reached by insertions, deletions and transpositions,
\* getRatios() and getHarmonics() return every stored entry exactly once, in
\* strictly ascending order of value; min() and max(), getLowestHarmonic() and
\* getHighestHarmonic() return the stored entry no other is below (above), and
\* undefined when the container is empty.
C12_SortedViews ==
    /\ Len(IntervalSetGetRatios(ratios)) = Len(ratios)
    /\ Range(IntervalSetGetRatios(ratios)) = Range(Values(ratios))
    /\ StrictlyAscending(IntervalSetGetRatios(ratios))
    /\ IF ratios = <<>>
       THEN IntervalSetMin(ratios) = Undefined /\ IntervalSetMax(ratios) = Undefined
       ELSE /\ IntervalSetMin(ratios) \in Range(Values(ratios))
            /\ IntervalSetMax(ratios) \in Range(Values(ratios))
            /\ \A i \in 1 .. Len(ratios) :
                   /\ Compare(IntervalSetMin(ratios), ratios[i].f) <= 0
                   /\ Compare(IntervalSetMax(ratios), ratios[i].f) >= 0
    /\ \A s \in Spectra :
           /\ Len(SpectrumGetHarmonics(Store, s)) = Len(harmonics[s])
           /\ Range(SpectrumGetHarmonics(Store, s)) = Stored(harmonics[s])
           /\ StrictlyAscending(FrequenciesOf(heap, SpectrumGetHarmonics(Store, s)))
           /\ IF harmonics[s] = <<>>
              THEN SpectrumGetLowestHarmonic(Store, s) = 0
                   /\ SpectrumGetHighestHarmonic(Store, s) = 0
              ELSE /\ SpectrumGetLowestHarmonic(Store, s) \in Stored(harmonics[s])
                   /\ SpectrumGetHighestHarmonic(Store, s) \in Stored(harmonics[s])
                   /\ \A id \in Stored(harmonics[s]) :
                          /\ Compare(heap[SpectrumGetLowestHarmonic(Store, s)].frequency,
                                     heap[id].frequency) <= 0
                          /\ Compare(heap[SpectrumGetHighestHarmonic(Store, s)].frequency,
                                     heap[id].frequency) >= 0

\* both containers hold three entries, inserted in an order that is not
\* ascending, the Spectrum's after a transposition
C12_Witness ==
    /\ Len(ratios) = 3
    /\ Compare(ratios[1].f, ratios[2].f) > 0
    /\ Len(harmonics[1]) = 3
    /\ Compare(heap[harmonics[1][1].h].frequency, heap[harmonics[1][3].h].frequency) > 0
    /\ ret.op \in {"transpose", "transposeHarmonic"}

\* ------------------------------------------- the IntervalSet as a set
\* ratios the caller passes: 3/2 in two spellings, whole numbers, zero, and a
\* pair fraction.js rejects (1/0)
IntervalInputs == {<<3, 2>>, <<6, 4>>, <<2, 1>>, <<1, 1>>, <<0, 1>>, <<1, 0>>}

NextIntervals ==
    \/ AddInterval(IntervalInputs)
    \/ HasInterval(IntervalInputs)
    \/ GetInterval(IntervalInputs)
    \/ DeleteInterval(IntervalInputs)
    \/ ClearIntervals
    \/ NewIntervalSet(IntervalInputs)

SpecIntervals == Init /\ [][NextIntervals]_vars

\* the rationals a Map of ratios holds
Members(m) == Range(Values(m))

\* the rationals a list of inputs spells
Spelled(list) == {Fraction(list[i]) : i \in 1 .. Len(list)}

\* C13: after any sequence of add, delete, clear and array construction the
\* size counts every rational once however it was spelled; add of a rational
\* already present changes nothing, add of a new one adds exactly it; has(x)
\* is true exactly when the rational of x is present; delete(x) removes
\* exactly that rational; a call that throws changes nothing.
C13_CanonicalDedup ==
    [][/\ IntervalSetSize(ratios') = Cardinality(Members(ratios'))
       /\ \A i \in 1 .. Len(ratios') : ratios'[i].key = ToFraction(ratios'[i].f)
       /\ ~ret'.ok => ratios' = ratios
       /\ (ret'.op = "IntervalSet.add" /\ ret'.ok)
            => /\ Members(ratios') = Members(ratios) \cup Spelled(ret'.args)
               /\ Spelled(ret'.args) \subseteq Members(ratios) => ratios' = ratios
       /\ (ret'.op = "IntervalSet.has" /\ ret'.ok)
            => /\ ret'.val = (Spelled(ret'.args) \subseteq Members(ratios))
               /\ ratios' = ratios
       /\ (ret'.op = "IntervalSet.get" /\ ret'.ok)
            => /\ ret'.val = IF Spelled(ret'.args) \subseteq Members(ratios)
                             THEN Fraction(ret'.args[1]) ELSE Undefined
               /\ ratios' = ratios
       /\ (ret'.op = "IntervalSet.delete" /\ ret'.ok)
            => Members(ratios') = Members(ratios) \ Spelled(ret'.args)
       /\ (ret'.op = "IntervalSet.clear") => ret'.ok /\ ratios' = <<>>
       /\ (ret'.op = "new IntervalSet" /\ ret'.ok)
            => Members(ratios') = Spelled(ret'.args)]_vars

\* 6/4 was added to a set that held 3/2 and, after it, another ratio: the set
\* still holds two
C13_Witness ==
    /\ ret.op = "IntervalSet.add"
    /\ ret.ok
    /\ ret.args = <<<<6, 4>>>>
    /\ Len(ratios) = 2
    /\ ratios[1].key = "3/2"

\* ------------------------------------------------------ IntervalSet.range
\* largest maxDenominator the caller passes
MaxDenominator == 5

\* Math.floor and Math.ceil of a number
Floor(f) == f[1] \div f[2]
Ceil(f) == -((-f[1]) \div f[2])

\* fraction.valueOf() * denominator: the fraction as a number, then the
\* product as a number
Times(f, denominator) == Float(Mul(Float(f), <<denominator, 1>>))

\* Math.max(1, Math.ceil(minFraction.valueOf() * denominator))
MinNumerator(min, denominator) ==
    IF Ceil(Times(min, denominator)) < 1 THEN 1 ELSE Ceil(Times(min, denominator))

\* a largest numerator that stops one short
MaxNumeratorExclusive(max, denominator) == Floor(Times(max, denominator)) - 1

\* Math.floor(maxFraction.valueOf() * denominator)
MaxNumerator(max, denominator) == Floor(Times(max, denominator))

\* the inner loop of range: numerator .. last over one denominator
RECURSIVE NumeratorLoop(_, _, _, _, _, _)
NumeratorLoop(m, min, max, denominator, numerator, last) ==
    IF numerator > last THEN Answer(m, TRUE, 0)
    ELSE LET fraction == Fraction(<<numerator, denominator>>)
             a == IF Compare(fraction, min) >= 0 /\ Compare(fraction, max) <= 0
                  THEN IntervalSetAdd(m, fraction)
                  ELSE Answer(m, TRUE, 0)
         IN  IF ~a.ok THEN a
             ELSE NumeratorLoop(a.m, min, max, denominator, numerator + 1, last)

\* the outer loop of range: denominator .. maxDenominator
RECURSIVE DenominatorLoop(_, _, _, _, _)
DenominatorLoop(m, min, max, denominator, maxDenominator) ==
    IF denominator > maxDenominator THEN Answer(m, TRUE, 0)
    ELSE LET a == NumeratorLoop(m, min, max, denominator, MinNumerator(min, denominator),
                                MaxNumerator(max, denominator))
         IN  IF ~a.ok THEN a
             ELSE DenominatorLoop(a.m, min, max, denominator + 1, maxDenominator)

\* a range that tries the largest denominator only
IntervalSetRangeLastOnly(min, max, maxDenominator) ==
    IF maxDenominator < 1 THEN Answer(<<>>, FALSE, 0)
    ELSE IF ~Parses(min) \/ ~Parses(max) THEN Answer(<<>>, FALSE, 0)
    ELSE IF Compare(Fraction(min), Fraction(max)) > 0 THEN Answer(<<>>, FALSE, 0)
    ELSE DenominatorLoop(<<>>, Fraction(min), Fraction(max), maxDenominator, maxDenominator)

\* a range that does not compare min with max
IntervalSetRangeUnchecked(min, max, maxDenominator) ==
    IF maxDenominator < 1 THEN Answer(<<>>, FALSE, 0)
    ELSE IF ~Parses(min) \/ ~Parses(max) THEN Answer(<<>>, FALSE, 0)
    ELSE DenominatorLoop(<<>>, Fraction(min), Fraction(max), 1, maxDenominator)

\* IntervalSet.range(min, max, maxDenominator)
IntervalSetRange(min, max, maxDenominator) ==
    IF maxDenominator < 1 THEN Answer(<<>>, FALSE, 0)
    ELSE IF ~Parses(min) \/ ~Parses(max) THEN Answer(<<>>, FALSE, 0)
    ELSE IF Compare(Fraction(min), Fraction(max)) > 0 THEN Answer(<<>>, FALSE, 0)
    ELSE DenominatorLoop(<<>>, Fraction(min), Fraction(max), 1, maxDenominator)

\* set = IntervalSet.range(min, max, maxDenominator)
RangeOf(M, D) ==
    \E min \in M, max \in M, maxDenominator \in D :
        Recorded(Made(IntervalSetRange(min, max, maxDenominator)), "range",
                 <<min, max, maxDenominator>>)

\* bounds the caller passes: zero, a whole number, and two fractions (3/2
\* spelled 6/4)
RangeInputs == {<<0, 1>>, <<1, 1>>, <<6, 4>>, <<13, 5>>}

\* denominator limits the caller passes
DenominatorInputs == 0 .. MaxDenominator

NextRange ==
    \/ RangeOf(RangeInputs, DenominatorInputs)
    \/ ClearIntervals

SpecRange == Init /\ [][NextRange]_vars

\* the arguments of the last call of range, and whether they are ratios
RangeMin == Fraction(ret.args[1])
RangeMax == Fraction(ret.args[2])
RangeLimit == ret.args[3]
RangeCalled == ret.op = "range" /\ Parses(ret.args[1]) /\ Parses(ret.args[2])

\* the fractions n/d with 1 <= d <= limit, n >= 1 and min <= n/d <= max
Between(min, max, limit) ==
    {f \in {Fraction(<<n, d>>) : n \in 1 .. (Ceil(max) + 1) * limit, d \in 1 .. limit} :
        Compare(f, min) >= 0 /\ Compare(f, max) <= 0}

\* C14: for min <= max and maxDenominator >= 1, range returns exactly the
\* rationals n/d with 1 <= d <= maxDenominator, n >= 1 and min <= n/d <= max:
\* none missing, none outside, both bounds included when they are such rationals.
C14_RangeExact ==
    (RangeCalled /\ RangeLimit >= 1 /\ Compare(RangeMin, RangeMax) <= 0)
        => ret.ok /\ Members(ratios) = Between(RangeMin, RangeMax, RangeLimit)

\* range called again with the same bounds and another denominator limit
RangeWith(limit) == IntervalSetRange(ret.args[1], ret.args[2], limit)

\* C15: for fixed bounds and d1 <= d2, every member of range(min, max, d1) is a
\* member of range(min, max, d2).
C15_RangeMonotone ==
    (RangeCalled /\ ret.ok)
        => \A limit \in 1 .. RangeLimit : Members(RangeWith(limit).m) \subseteq Members(ratios)

\* range(min, max, d2) holds the members of range(min, max, d2 - 1), which is
\* not empty, and more
C15_Witness ==
    /\ RangeCalled
    /\ ret.ok
    /\ RangeLimit >= 2
    /\ Members(RangeWith(RangeLimit - 1).m) # {}
    /\ Members(RangeWith(RangeLimit - 1).m) # Members(ratios)

C17_RangeFailure ==
    RangeCalled => (~ret.ok <=> (RangeLimit < 1 \/ Compare(RangeMin, RangeMax) > 0))

\* range threw for min > max with a denominator limit of at least 1
C17_Witness ==
    /\ RangeCalled
    /\ ~ret.ok
    /\ RangeLimit >= 1
    /\ Compare(RangeMin, RangeMax) > 0

\* ----------------------------------------------------- IntervalSet.minMax
\* a loop that moves on to the next position after a delete as well
NextPositionAdvancing(i, deleted) == i + 1

\* the position the Map's iterator visits next: deleting the entry it stands
\* on brings the following entry to that position
NextPosition(i, deleted) == IF deleted THEN i ELSE i + 1

\* ratio.compare(minFraction) < 0 || ratio.compare(maxFraction) > 0
Outside(f, min, max) == Compare(f, min) < 0 \/ Compare(f, max) > 0

\* the loop of minMax over this.ratios.values(), deleting while it iterates
RECURSIVE MinMaxLoop(_, _, _, _)
MinMaxLoop(m, i, min, max) ==
    IF i > Len(m) THEN Answer(m, TRUE, 0)
    ELSE LET a == IF Outside(m[i].f, min, max)
                  THEN Answer(MapDelete(m, ToFraction(m[i].f)), TRUE, TRUE)
                  ELSE Answer(m, TRUE, FALSE)
         IN  IF ~a.ok THEN a ELSE MinMaxLoop(a.m, NextPosition(i, a.val), min, max)

\* IntervalSet.minMax
IntervalSetMinMax(m, min, max) ==
    IF ~Parses(min) \/ ~Parses(max) THEN Answer(m, FALSE, 0)
    ELSE IF Compare(Fraction(min), Fraction(max)) > 0 THEN Answer(m, FALSE, 0)
    ELSE MinMaxLoop(m, 1, Fraction(min), Fraction(max))

\* set.minMax(min, max)
MinMax(M) ==
    \E min \in M, max \in M :
        Answered(IntervalSetMinMax(ratios, min, max), "minMax", <<min, max>>)

\* The IntervalSet is built by add and filtered by minMax.
NextFilter ==
    \/ AddInterval({<<1, 2>>, <<1, 1>>, <<6, 4>>, <<2, 1>>, <<3, 1>>})
    \/ ClearIntervals
    \/ MinMax({<<1, 1>>, <<3, 2>>, <<4, 2>>, <<1, 0>>})

SpecFilter == Init /\ [][NextFilter]_vars

\* the entries of a Map of ratios that lie within [min, max], in the Map's order
RECURSIVE Within(_, _, _)
Within(m, min, max) ==
    IF m = <<>> THEN <<>>
    ELSE IF Outside(Head(m).f, min, max) THEN Within(Tail(m), min, max)
    ELSE <<Head(m)>> \o Within(Tail(m), min, max)

\* C18: minMax(min, max) with min <= max returns and leaves in the set exactly
\* the members r with min <= r <= max (in their order, bounds included);
\* with min > max it throws and leaves the set as it was.
C18_MinMaxFilters ==
    [][(ret'.op = "minMax" /\ Parses(ret'.args[1]) /\ Parses(ret'.args[2]))
        => IF Compare(Fraction(ret'.args[1]), Fraction(ret'.args[2])) <= 0
           THEN /\ ret'.ok
                /\ ratios' = Within(ratios, Fraction(ret'.args[1]), Fraction(ret'.args[2]))
           ELSE ~ret'.ok /\ ratios' = ratios]_vars

\* minMax(3/2, 2) returned and the set holds both bounds, 3/2 and 2
C18_Witness ==
    /\ ret.op = "minMax"
    /\ ret.ok
    /\ ret.args = <<<<3, 2>>, <<4, 2>>>>
    /\ Len(ratios) = 2
    /\ Members(ratios) = {<<3, 2>>, <<2, 1>>}

\* ------------------------------------------- IntervalSet.toSweepIntervals
\* Fraction.div(other): throws for a divisor that is zero
Divides(g) == g[1] # 0
Div(f, g) == Mul(f, Inverse(g))

\* a sweep that divides every ratio by the smallest one
SweepFromFirst(q, i) == IF i = 1 THEN One ELSE Div(q[i], q[1])

\* intervals.push(new Fraction(1)) and intervals.push(ratios[i].div(ratios[i - 1]))
SweepInterval(q, i) == IF i = 1 THEN One ELSE Div(q[i], q[i - 1])

\* IntervalSet.toSweepIntervals
IntervalSetToSweepIntervals(m) ==
    IF IntervalSetGetRatios(m) = <<>> THEN Answer(m, TRUE, <<>>)
    ELSE IF \E i \in 2 .. Len(m) : ~Divides(IntervalSetGetRatios(m)[i - 1])
         THEN Answer(m, FALSE, <<>>)
         ELSE Answer(m, TRUE, [i \in 1 .. Len(m) |-> SweepInterval(IntervalSetGetRatios(m), i)])

\* the caller reads the list a call returned
Listed(o) == [o EXCEPT !.val = 0, !.out = IF o.ok THEN {o.val} ELSE {}]

\* set.toSweepIntervals()
ToSweepIntervals ==
    Answered(Listed(IntervalSetToSweepIntervals(ratios)), "toSweepIntervals", <<>>)

\* The IntervalSet is built by add and delete and swept.
NextSweep ==
    \/ AddInterval({<<1, 1>>, <<6, 4>>, <<2, 1>>, <<3, 1>>, <<0, 1>>, <<-1, 1>>})
    \/ DeleteInterval({<<1, 1>>, <<3, 2>>, <<0, 1>>})
    \/ ToSweepIntervals

SpecSweep == Init /\ [][NextSweep]_vars

\* the ratios of the set in ascending order
Sorted == IntervalSetGetRatios(ratios)

\* every quotient ri / r(i-1) of the sweep is defined: no ratio but the largest
\* is zero
Sweepable == \A i \in 1 .. Len(Sorted) - 1 : Sorted[i] # Zero

\* C19: for a set whose ratios in ascending order are r0 < r1 < ... < rn,
\* toSweepIntervals returns a list as long as the set whose first element is 1
\* and whose element i is ri / r(i-1), the quotients being defined; for the
\* empty set it returns the empty list; the set is not modified.
C19_SweepIntervals ==
    [][ret'.op = "toSweepIntervals"
        => /\ ratios' = ratios
           /\ ratios = <<>> => ret'.ok /\ ret'.out = {<<>>}
           /\ Sweepable
                => /\ ret'.ok
                   /\ Cardinality(ret'.out) = 1
                   /\ \A list \in ret'.out :
                          /\ Len(list) = IntervalSetSize(ratios)
                          /\ \A i \in 1 .. Len(list) :
                                 IF i = 1 THEN list[i] = One
                                 ELSE Mul(list[i], Sorted[i - 1]) = Sorted[i]]_vars

\* the sweep of the set {1, 3/2, 3}, inserted in another order: 1, 3/2, 2
C19_Witness ==
    /\ ret.op = "toSweepIntervals"
    /\ ret.ok
    /\ ret.out = {<<One, <<3, 2>>, <<2, 1>>>>}
    /\ ratios[1].f # One

\* ------------------------------------------------ IntervalSet.toSpectrum
\* the amplitude functions the caller passes: constant 1, by index (1, 1/2,
\* 0, ...), by ratio (1 for a whole number, 1/2 otherwise), and one whose
\* values lie above 1
AmplitudeFns == {"full", "byIndex", "byRatio", "over"}

\* amp(ratio, index)
Amp(fn, ratio, index) ==
    CASE fn = "full" -> AmpOne
      [] fn = "byIndex" -> IF index = 0 THEN AmpOne ELSE IF index = 1 THEN 1 ELSE 0
      [] fn = "byRatio" -> IF ratio[2] = 1 THEN AmpOne ELSE 1
      [] fn = "over" -> AmpOne + 1

\* the forEach of toSpectrum: spectrum.add(ratio, amp(ratio, index)), the index
\* counted from 0
RECURSIVE ToSpectrumLoop(_, _, _, _, _)
ToSpectrumLoop(st, t, q, i, fn) ==
    IF i > Len(q) THEN Outcome(st, TRUE, t)
    ELSE LET a == SpectrumAddNew(st, t, q[i], Amp(fn, q[i], i - 1), 0)
         IN  IF ~a.ok THEN a ELSE ToSpectrumLoop(a.st, t, q, i + 1, fn)

\* a toSpectrum that walks the ratios in the Map's order
IntervalSetToSpectrumUnsorted(st, m, t, fn) ==
    Assigned(st, t, ToSpectrumLoop([st EXCEPT !.harmonics[t] = <<>>], t, Values(m), 1, fn))

\* t = set.toSpectrum(amp)
IntervalSetToSpectrum(st, m, t, fn) ==
    Assigned(st, t, ToSpectrumLoop([st EXCEPT !.harmonics[t] = <<>>], t,
                                   IntervalSetGetRatios(m), 1, fn))

\* t = set.toSpectrum(amp)
ToSpectrum(T, Fns) ==
    \E t \in T, fn \in Fns :
        FinishWith(IntervalSetToSpectrum(Store, ratios, t, fn), "toSpectrum", 0, t, NoRatio,
                   <<fn>>)

\* The IntervalSet is built by add and clear and converted into Spectrum 1.
NextToSpectrum ==
    \/ AddInterval({<<1, 1>>, <<6, 4>>, <<2, 1>>, <<0, 1>>})
    \/ ClearIntervals
    \/ ToSpectrum(Receiver, AmplitudeFns)

SpecToSpectrum == Init /\ [][NextToSpectrum]_vars

\* the position of a ratio in the ascending order, counted from 0
IndexOf(f) == (CHOOSE i \in 1 .. Len(Sorted) : Sorted[i] = f) - 1

\* the triples toSpectrum is to produce with the amplitude function fn
Converted(fn) ==
    {<<ToFraction(f), Amp(fn, f, IndexOf(f)), 0>> : f \in Members(ratios)}

\* every ratio of the set is positive and every amplitude fn gives lies in [0, 1]
Convertible(fn) ==
    \A f \in Members(ratios) :
        Compare(f, Zero) > 0 /\ Amp(fn, f, IndexOf(f)) \in 0 .. AmpOne

AffinitiveRatioInverted(hp, h1, h2) == Div(hp[h1].frequency, hp[h2].frequency)

\* h2.frequency.div(h1.frequency)
AffinitiveRatio(hp, h1, h2) == Div(hp[h2].frequency, hp[h1].frequency)

\* the inner loop of affinitive, over the harmonics of the complement
RECURSIVE ComplementLoop(_, _, _, _, _)
ComplementLoop(m, hp, h1, harmonics2, j) ==
    IF j > Len(harmonics2) THEN Answer(m, TRUE, 0)
    ELSE IF ~Divides(hp[h1].frequency) THEN Answer(m, FALSE, 0)
    ELSE LET a == Answer(RatioSet(m, AffinitiveRatio(hp, h1, harmonics2[j])), TRUE, 0)
         IN  IF ~a.ok THEN a ELSE ComplementLoop(a.m, hp, h1, harmonics2, j + 1)

\* the outer loop of affinitive, over the harmonics of the context
RECURSIVE ContextLoop(_, _, _, _, _)
ContextLoop(m, hp, harmonics1, harmonics2, i) ==
    IF i > Len(harmonics1) THEN Answer(m, TRUE, 0)
    ELSE LET a == ComplementLoop(m, hp, harmonics1[i], harmonics2, 1)
         IN  IF ~a.ok THEN a ELSE ContextLoop(a.m, hp, harmonics1, harmonics2, i + 1)

\* IntervalSet.affinitive(context, complement)
IntervalSetAffinitive(st, context, complement) ==
    ContextLoop(<<>>, st.heap, SpectrumGetHarmonics(st, context),
                SpectrumGetHarmonics(st, complement), 1)

\* set = IntervalSet.affinitive(a, b)
Affinitive(S, T) ==
    \E a \in S, b \in T :
        Recorded(Made(IntervalSetAffinitive(Store, a, b)), "affinitive", <<a, b>>)

\* Two Spectra are built by add, remove and clear, and their affinitive set is
\* taken in both directions and of each Spectrum with itself.
NextAffinitive ==
    \/ AddRatio(Receiver, {<<1, 1>>, <<3, 2>>, <<2, 1>>}, {AmpOne})
    \/ AddRatio(Copy, {<<1, 1>>, <<2, 1>>}, {AmpOne})
    \/ Remove(Receiver, {<<1, 1>>})
    \/ Clear(Receiver \cup Copy)
    \/ Affinitive(Receiver \cup Copy, Receiver \cup Copy)

SpecAffinitive == Init /\ [][NextAffinitive]_vars

\* the frequencies stored in the Spectrum s
StoredFrequencies(s) == {heap[harmonics[s][i].h].frequency : i \in 1 .. Len(harmonics[s])}

\* { h2.frequency / h1.frequency : h1 in a, h2 in b } as reduced fractions
PairRatios(a, b) ==
    {Fraction(<<f2[1] * f1[2], f2[2] * f1[1]>>) :
        f1 \in StoredFrequencies(a), f2 \in StoredFrequencies(b)}

\* C21: IntervalSet.affinitive(A, B) returns exactly the set
\* { h2.frequency / h1.frequency : h1 in A, h2 in B } of exact rationals, each
\* once under its canonical key; its size is at most |A| * |B|; it is empty iff
\* A or B is empty; neither A nor B is modified.
C21_Affinitive ==
    [][ret'.op = "affinitive"
        => LET a == ret'.args[1]
               b == ret'.args[2]
           IN  /\ ret'.ok
               /\ Members(ratios') = PairRatios(a, b)
               /\ Len(ratios') = Cardinality(PairRatios(a, b))
               /\ \A i \in 1 .. Len(ratios') : ratios'[i].key = ToFraction(ratios'[i].f)
               /\ Len(ratios') <= Len(harmonics[a]) * Len(harmonics[b])
               /\ (ratios' = <<>>) <=> (harmonics[a] = <<>> \/ harmonics[b] = <<>>)
               /\ heap' = heap /\ harmonics' = harmonics]_vars

\* affinitive({1, 3/2, 2}, {1, 2}) = {1, 2, 2/3, 4/3, 1/2}: six pairs, five
\* ratios
C21_Witness ==
    /\ ret.op = "affinitive"
    /\ ret.args = <<1, 2>>
    /\ Frequencies(heap, harmonics[1]) = {"1", "3/2", "2"}
    /\ Frequencies(heap, harmonics[2]) = {"1", "2"}
    /\ {ratios[i].key : i \in 1 .. Len(ratios)} = {"1", "2", "2/3", "4/3", "1/2"}

\* ------------------------------------------------------ IntervalSet.densify
\* the denominators the Farey search of new Fraction(number) goes up to: N, which
\* is 10^7 in fraction.js
FareyLimit == 12

\* Fraction.valueOf(): Number(n) / Number(d)
FractionValueOf(f) == Float(<<NumberOf(f[1]), NumberOf(f[2])>>)

\* the powers of two <<up, down>> that bring the root of n/d into
\* [2^(Precision-1), 2^Precision)
RECURSIVE SqrtScale(_, _, _, _)
SqrtScale(n, d, up, down) ==
    IF n * up * up >= Pow2(2 * Precision) * d * down * down
    THEN SqrtScale(n, d, up, 2 * down)
    ELSE IF n * up * up < Pow2(2 * Precision - 2) * d * down * down
    THEN SqrtScale(n, d, 2 * up, down)
    ELSE <<up, down>>

\* Math.sqrt(x) of a number x >= 0: the number nearest to the square root
Sqrt(x) ==
    IF x[1] = 0 THEN Zero
    ELSE LET sc == SqrtScale(x[1], x[2], 1, 1)
             n == x[1] * sc[1] * sc[1]
             d == x[2] * sc[2] * sc[2]
             m == CHOOSE k \in Pow2(Precision - 1) .. Pow2(Precision) - 1 :
                      k * k * d <= n /\ (k + 1) * (k + 1) * d > n
             half == (2 * m + 1) * (2 * m + 1) * d
             r == IF half < 4 * n \/ (half = 4 * n /\ m % 2 = 1) THEN m + 1 ELSE m
         IN  Fraction(<<r * sc[2], sc[1]>>)

Fourth(x) == x * x * x * x

\* Math.pow(2, maxGapCents / 1200) for a whole number a of quarter octaves: the
\* number nearest to 2^(a/4)
Power(maxGapCents) ==
    LET a == (4 * maxGapCents) \div 1200
        k == Precision - 1 - (a \div 4)
        m == CHOOSE j \in Pow2(Precision - 1) .. Pow2(Precision) :
                 /\ Fourth(2 * j - 1) <= Pow2(4 * Precision + (a % 4))
                 /\ Pow2(4 * Precision + (a % 4)) < Fourth(2 * j + 1)
    IN  Fraction(<<m, Pow2(k)>>)

\* 10 ** Math.floor(1 + Math.log10(p1)) for p1 >= 1: the least power of ten
\* above p1
RECURSIVE PowerOfTen(_, _)
PowerOfTen(p1, z) == IF Compare(<<z, 1>>, p1) > 0 THEN z ELSE PowerOfTen(p1, 10 * z)

\* the Farey search of fraction.js for p1 in (0, 1): A/B and C/D close in on p1
\* until a mediant equals it as a number or a denominator passes N; the sums
\* A + C and B + D stay whole numbers a number holds exactly
RECURSIVE FareyLoop(_, _, _, _, _, _, _)
FareyLoop(p1, A, B, C, D, n, d) ==
    IF ~(B <= FareyLimit /\ D <= FareyLimit) THEN <<n, d>>
    ELSE LET M == Float(<<A + C, B + D>>)
         IN  IF p1 = M
             THEN IF B + D <= FareyLimit THEN <<A + C, B + D>>
                  ELSE IF D > B THEN <<C, D>> ELSE <<A, B>>
             ELSE IF Compare(p1, M) > 0
                  THEN IF B + D > FareyLimit
                       THEN FareyLoop(p1, A + C, B + D, C, D, C, D)
                       ELSE FareyLoop(p1, A + C, B + D, C, D, A + C, B + D)
                  ELSE FareyLoop(p1, A, B, C + A, D + B, A, B)

\* new Fraction(p1) of a number p1 >= 0: a whole number as it is, any other the
\* fraction the Farey search finds for p1 / z, times z
FromNumber(p1) ==
    IF p1[2] = 1 THEN p1
    ELSE LET z == IF Compare(p1, One) >= 0 THEN PowerOfTen(p1, 10) ELSE 1
             f == FareyLoop(IF z = 1 THEN p1 ELSE Float(<<p1[1], p1[2] * z>>),
                            0, 1, 1, 1, 0, 1)
         IN  Fraction(<<f[1] * z, f[2]>>)

\* a densify that lets maxGapCents = 0 through
DensifyThrowsBelowZero(maxGapCents) == maxGapCents < 0

\* if (maxGapCents <= 0) throw
DensifyThrows(maxGapCents) == maxGapCents <= 0

\* one pass of the for loop over the adjacent pairs of sorted: the answer holds
\* the Map, whether the pass returned or threw (a division by zero, or the
\* Fraction of NaN), and needsMorePoints
RECURSIVE ScanLoop(_, _, _, _, _)
ScanLoop(m, sorted, i, gap, more) ==
    IF i > Len(sorted) - 1 THEN Answer(m, TRUE, more)
    ELSE IF ~Divides(sorted[i]) THEN Answer(m, FALSE, more)
    ELSE IF Compare(FractionValueOf(Div(sorted[i + 1], sorted[i])), gap) > 0
         THEN LET product == Float(Mul(FractionValueOf(sorted[i]),
                                        FractionValueOf(sorted[i + 1])))
                  a == IF product[1] < 0 THEN Answer(m, FALSE, more)
                       ELSE Answer(RatioSet(m, FromNumber(Sqrt(product))), TRUE, TRUE)
              IN  IF ~a.ok THEN a ELSE ScanLoop(a.m, sorted, i + 1, gap, TRUE)
         ELSE ScanLoop(m, sorted, i + 1, gap, more)

\* the body of the while loop of densify
DensifyScan(m, gap) == ScanLoop(m, IntervalSetGetRatios(m), 1, gap, FALSE)

\* a step of densify: the set, the loop variables and the call are recorded
Densified(m, more, gap, op, ok, args) ==
    /\ ratios' = m
    /\ needsMorePoints' = more
    /\ maxGapRatio' = gap
    /\ ret' = [op |-> op, ok |-> ok, s |-> 0, t |-> 0, h |-> 0, r |-> NoRatio,
               val |-> 0, out |-> {}, args |-> args]
    /\ UNCHANGED <<heap, harmonics, refs, origin>>

\* set.densify(maxGapCents), up to the head of the while loop
DensifyCall(G) ==
    /\ ~needsMorePoints
    /\ \E maxGapCents \in G :
           IF DensifyThrows(maxGapCents)
           THEN Densified(ratios, FALSE, One, "densify", FALSE, <<maxGapCents>>)
           ELSE Densified(ratios, TRUE, Power(maxGapCents), "densifying", TRUE,
                          <<maxGapCents>>)

\* one pass of the while loop; densify returns after a pass that inserted
\* nothing
DensifyPass ==
    /\ needsMorePoints
    /\ LET pass == DensifyScan(ratios, maxGapRatio)
           more == pass.ok /\ pass.val
       IN  Densified(pass.m, more, IF more THEN maxGapRatio ELSE One,
                     IF more THEN "densifying" ELSE "densify", pass.ok, ret.args)

\* set.add(ratio) of a ratio of any size, the set holding up to MaxSize ratios
AddAnyInterval(F) ==
    \E in \in F :
        /\ Len(ratios) < MaxSize
        /\ Recorded(IntervalSetAdd(ratios, in), "IntervalSet.add", <<in>>)

\* An IntervalSet of positive ratios, one of them small, is built by add and
\* clear and densified with gaps of a quarter, a half and a whole octave, of 0
\* and of -1200 cents.
GapInputs == {-1200, 0, 300, 600, 1200}

NextDensify ==
    \/ AddAnyInterval({<<1, 256>>, <<1, 1>>, <<3, 2>>, <<2, 1>>, <<4, 1>>})
    \/ ClearIntervals
    \/ DensifyCall(GapInputs)
    \/ DensifyPass

SpecDensify == Init /\ [][NextDensify]_vars

\* every ratio of the Map m is positive
PositiveRatios(m) == \A f \in Members(m) : Compare(f, Zero) > 0

\* no adjacent pair of the ascending ratios is wider than the gap of the last
\* call, compared the way densify compares
GapsClosed ==
    \A i \in 1 .. Len(Sorted) - 1 :
        /\ Divides(Sorted[i])
        /\ Compare(FractionValueOf(Div(Sorted[i + 1], Sorted[i])), Power(ret.args[1])) <= 0

\* the pass a running densify takes next
NextPass == DensifyScan(ratios, maxGapRatio)

\* C22: for every interval set of positive ratios and every maxGapCents > 0,
\* densify(maxGapCents) terminates: its loop reaches a pass in which nothing is
\* inserted, and then no adjacent pair of the ascending ratios is wider than
\* 2^(maxGapCents/1200).  The set only grows, so the loop goes on forever exactly
\* when a pass asks for more points and inserts no new one; hence: every pass
\* over positive ratios returns, leaves the ratios positive, and either inserts
\* a new ratio or ends the loop, and a densify that returned left no gap open.
C22_DensifyConverges ==
    /\ needsMorePoints /\ PositiveRatios(ratios)
           => /\ NextPass.ok
              /\ PositiveRatios(NextPass.m)
              /\ NextPass.val => NextPass.m # ratios
    /\ ret.op = "densify" /\ ret.ok => GapsClosed

\* C23: densify(maxGapCents) with maxGapCents <= 0 fails with an error before
\* any insertion: the call throws without entering its loop and the set is as
\* it was.
C23_DensifyRejects ==
    [][/\ ~needsMorePoints
       /\ ret'.op \in {"densify", "densifying"}
       /\ ret'.args[1] <= 0
       => /\ ret'.op = "densify"
          /\ ~ret'.ok
          /\ ~needsMorePoints'
          /\ ratios' = ratios]_vars

\* densify(0) threw on the set {1, 4}, whose gap of two octaves is still there
C23_Witness ==
    /\ ret.op = "densify"
    /\ ~ret.ok
    /\ ret.args = <<0>>
    /\ Members(ratios) = {<<1, 1>>, <<4, 1>>}

FractionGcdOfNumerators(f, g) ==
    Fraction(<<Gcd(Abs(f[1]), Abs(g[1])), f[2] * g[2]>>)

\* Fraction.gcd(other): gcd(a/b, c/d) = gcd(a, c) / lcm(b, d), computed as
\* gcd(a, c) * gcd(b, d) / (b * d); the result carries no sign
FractionGcd(f, g) ==
    Fraction(<<Gcd(Abs(f[1]), Abs(g[1])) * Gcd(f[2], g[2]), f[2] * g[2]>>)

\* the loop of getGCD over frequencies[1 ..]
RECURSIVE GcdLoop(_, _, _)
GcdLoop(frequencies, i, gcd) ==
    IF i > Len(frequencies) THEN gcd
    ELSE GcdLoop(frequencies, i + 1, FractionGcd(gcd, frequencies[i]))

\* Spectrum.getGCD: the gcd of the frequencies of getHarmonics(), undefined for
\* an empty Spectrum
SpectrumGetGCD(st, s) ==
    LET sorted == SpectrumGetHarmonics(st, s)
        frequencies == [i \in 1 .. Len(sorted) |-> st.heap[sorted[i]].frequency]
    IN  IF Len(frequencies) = 0 THEN Undefined
        ELSE GcdLoop(frequencies, 2, frequencies[1])

\* Spectrum.getPeriod: gcd.inverse(), which throws for a gcd of 0; the Fraction
\* returned is what the caller reads (out), nothing for undefined
SpectrumGetPeriod(st, s) ==
    LET gcd == SpectrumGetGCD(st, s)
    IN  IF gcd = Undefined THEN Outcome(st, TRUE, 0)
        ELSE IF gcd[1] = 0 THEN Outcome(st, FALSE, 0)
        ELSE [Outcome(st, TRUE, 0) EXCEPT !.out = {Inverse(gcd)}]

\* s.getPeriod()
GetPeriod(S) ==
    \E s \in S :
        Finish(SpectrumGetPeriod(Store, s), "getPeriod", s, 0, NoRatio)

PeriodInputs == {<<1, 2>>, <<1, 1>>, <<3, 2>>, <<2, 1>>, <<3, 1>>, <<4, 1>>}

\* A Spectrum built by add, remove and clear, one of whose harmonics
\* transposeHarmonic can take to 0 or below, is asked for its period.
NextPeriod ==
    \/ AddRatio(Receiver, PeriodInputs, {AmpOne})
    \/ Remove(Receiver, {<<1, 2>>, <<1, 1>>})
    \/ Clear(Receiver)
    \/ TransposeHarmonic(Receiver, {<<2, 1>>}, {<<0, 1>>, <<-1, 1>>})
    \/ GetPeriod(Receiver)

SpecPeriod == Init /\ [][NextPeriod]_vars

\* the whole numbers f * p for the stored frequencies f
Cycles(p) ==
    {Mul(heap[harmonics[ret.s][i].h].frequency, p)[1] : i \in 1 .. Len(harmonics[ret.s])}

\* C24: getPeriod of a Spectrum of positive frequencies returns: undefined when
\* the Spectrum is empty, and otherwise one positive fraction p such that f * p
\* is a positive whole number for every stored frequency f and no number above 1
\* divides all of these whole numbers. Only one fraction has this property, so
\* the result is the inverse of the rational gcd and depends on the set of
\* frequencies alone, not on the order they were added in.
C24_GetPeriod ==
    (ret.op = "getPeriod" /\ AllPositive(heap, harmonics[ret.s]))
        => /\ ret.ok
           /\ Len(harmonics[ret.s]) = 0 => ret.out = {}
           /\ Len(harmonics[ret.s]) > 0 =>
                  \E p \in ret.out :
                      /\ ret.out = {p}
                      /\ Compare(p, Zero) > 0
                      /\ \A i \in 1 .. Len(harmonics[ret.s]) :
                             /\ Mul(heap[harmonics[ret.s][i].h].frequency, p)[2] = 1
                             /\ Mul(heap[harmonics[ret.s][i].h].frequency, p)[1] > 0
                      /\ \A n \in Cycles(p) : \A k \in 2 .. n :
                             \E c \in Cycles(p) : c % k # 0

\* C24 witness: the frequencies 3/2, 1/2 and 1, added in this order, have the
\* period 2 (as 300, 100, 200 have 1/100)
C24_Witness ==
    /\ ret.op = "getPeriod" /\ ret.ok /\ ret.out = {<<2, 1>>}
    /\ [i \in 1 .. Len(harmonics[ret.s]) |-> harmonics[ret.s][i].key] = <<"3/2", "1/2", "1">>

\* C24 witness: an empty Spectrum has no period
C24_WitnessEmpty ==
    /\ ret.op = "getPeriod" /\ ret.ok /\ ret.out = {} /\ Len(harmonics[ret.s]) = 0

\* ------------------------------------------------------ scaling amplitudes
\* scale factors: the finite ones, the two infinities and NaN
ScaleInputs == FactorInputs \cup {Infinity, MinusInfinity, NaNFactor}

\* A Harmonic of the caller and the harmonics of a Spectrum, constructed with
\* valid amplitudes, are scaled by every kind of number.
NextScale ==
    \/ NewHarmonic({<<3, 2>>}, {1, AmpOne}, {1})
    \/ Forget
    \/ ScaleOne(ScaleInputs)
    \/ AddData(Receiver, {<<1, 1>>, <<2, 1>>}, {0, AmpOne}, {0, 1})
    \/ Remove(Receiver, {<<1, 1>>})
    \/ ScaleAmplitudes(Receiver, ScaleInputs)

SpecScale == Init /\ [][NextScale]_vars

\* clamp(a * factor, 0, 1) for an amplitude a of [0, 1] and a finite factor, or
\* an infinite factor and a > 0
ClampedProduct(a, factor) ==
    IF factor[2] = 0 THEN (IF factor[1] > 0 THEN AmpOne ELSE 0)
    ELSE IF a * factor[1] < 0 THEN 0
    ELSE IF a * factor[1] > AmpOne * factor[2] THEN AmpOne
    ELSE (a * factor[1]) \div factor[2]

\* the amplitude b is what scale(factor) is to leave of the amplitude a: a
\* number of [0, 1], and the clamped product where the product is a number
ScaledAs(b, a, factor) ==
    /\ b \in 0 .. AmpOne
    /\ (factor # NaNFactor /\ (factor[2] # 0 \/ a # 0)) => b = ClampedProduct(a, factor)

\* C25: scale(factor) on a Harmonic whose amplitude is in [0, 1] returns, leaves
\* the amplitude clamp(amplitude * factor, 0, 1), a number of [0, 1], and leaves
\* frequency and phase as they were; scaleAmplitudes(factor) on a Spectrum whose
\* amplitudes are in [0, 1] returns, does this to every stored harmonic, and
\* leaves the size, the keys, the frequencies and the phases as they were.
C25_ScaleClamps ==
    [][/\ (ret'.op = "scale" /\ heap[ret'.h].amplitude \in 0 .. AmpOne)
            => /\ ret'.ok
               /\ ScaledAs(heap'[ret'.h].amplitude, heap[ret'.h].amplitude, ret'.args[1])
               /\ heap'[ret'.h].frequency = heap[ret'.h].frequency
               /\ heap'[ret'.h].phase = heap[ret'.h].phase
       /\ (/\ ret'.op = "scaleAmplitudes"
           /\ \A i \in 1 .. Len(harmonics[ret'.s]) :
                  heap[harmonics[ret'.s][i].h].amplitude \in 0 .. AmpOne)
            => /\ ret'.ok
               /\ harmonics' = harmonics
               /\ \A i \in 1 .. Len(harmonics[ret'.s]) :
                      LET id == harmonics[ret'.s][i].h
                      IN  /\ ScaledAs(heap'[id].amplitude, heap[id].amplitude, ret'.args[1])
                          /\ heap'[id].frequency = heap[id].frequency
                          /\ heap'[id].phase = heap[id].phase]_vars

\* ------------------------------------------------------ IntervalSet.equals
\* the loop of equals over this.getRatios()
RECURSIVE EqualsLoop(_, _, _)
EqualsLoop(sorted, other, i) ==
    IF i > Len(sorted) THEN TRUE
    ELSE IF ~IntervalSetHas(other, sorted[i]).val THEN FALSE
    ELSE EqualsLoop(sorted, other, i + 1)

\* an equals that does not compare the sizes
IntervalSetEqualsAnySize(m, other) == EqualsLoop(IntervalSetGetRatios(m), other, 1)

\* IntervalSet.equals
IntervalSetEquals(m, other) ==
    IF IntervalSetSize(m) # IntervalSetSize(other) THEN FALSE
    ELSE EqualsLoop(IntervalSetGetRatios(m), other, 1)

\* the outcome of a.equals(b), with what b.equals(a) returns as out
BothWays(a, b) ==
    [Answer(a, TRUE, IntervalSetEquals(a, b)) EXCEPT !.out = {IntervalSetEquals(b, a)}]

\* set.equals(new IntervalSet(list)) and the call the other way round, list of
\* up to MaxSize ratios
Equals(F) ==
    \E n \in 0 .. MaxSize :
        \E list \in [1 .. n -> F] :
            Recorded(BothWays(ratios, IntervalSetNew(list).m), "equals", list)

\* set.equals(set)
EqualsSelf == Recorded(BothWays(ratios, ratios), "equals", Values(ratios))

EqualsInputs == {<<1, 1>>, <<3, 2>>, <<6, 4>>, <<2, 1>>}

\* A set built by add, delete and clear is compared with itself and with sets
\* constructed from lists in every order and spelling.
NextEquals ==
    \/ AddInterval(EqualsInputs)
    \/ DeleteInterval({<<3, 2>>})
    \/ ClearIntervals
    \/ Equals(EqualsInputs)
    \/ EqualsSelf

SpecEquals == Init /\ [][NextEquals]_vars

\* C26: a.equals(b) is true exactly when a and b hold the same rationals,
\* whatever the order and the spelling they were added in; b.equals(a) returns
\* the same, and a.equals(a) is true.
C26_EqualsIsSetEquality ==
    ret.op = "equals"
        => /\ ret.ok
           /\ ret.val = (Members(ratios) = Spelled(ret.args))
           /\ ret.out = {ret.val}

\* C26 witness: {1, 3/2, 2} equals the set constructed from 2, 1, 6/4
C26_Witness ==
    /\ ret.op = "equals" /\ ret.val = TRUE
    /\ Values(ratios) = <<<<1, 1>>, <<3, 2>>, <<2, 1>>>>
    /\ ret.args = <<<<2, 1>>, <<1, 1>>, <<6, 4>>>>

\* C26 witness: {1, 3/2} and {1, 3/2, 2} are not equal, either way
C26_WitnessDiffer ==
    /\ ret.op = "equals" /\ ret.val = FALSE /\ ret.out = {FALSE}
    /\ Members(ratios) = {<<1, 1>>, <<3, 2>>}
    /\ Spelled(ret.args) = {<<1, 1>>, <<3, 2>>, <<2, 1>>}

\* ------------------------------------------- moving one harmonic
MoveRatios == {<<3, 2>>, <<2, 1>>, <<2, 2>>}

\* A Spectrum built by add holds harmonics that differ in amplitude; a stored
\* harmonic, named by a frequency in either spelling or by a Harmonic of the
\* caller, is moved to a free key, not at all, or onto another one.
NextMove ==
    \/ NewHarmonic({<<2, 1>>}, {1}, {1})
    \/ Forget
    \/ AddRatio(Receiver, {<<1, 1>>}, {1})
    \/ AddRatio(Receiver, {<<3, 2>>, <<2, 1>>}, {AmpOne})
    \/ TransposeHarmonic(Receiver, {<<1, 1>>, <<6, 4>>}, MoveRatios)

SpecMove == Init /\ [][NextMove]_vars

\* the entries of a Map at keys other than those of K
Elsewhere(hp, m, K) == {e \in Entries(hp, m) : e.key \notin K}

\* C30: s.transposeHarmonic(x, ratio) on a Spectrum of positive frequencies
\* whose keys are those of its harmonics returns; when no harmonic of x's
\* canonical frequency is stored, or frequency * ratio has the key it had, Map
\* and harmonics are as before; otherwise the old key is gone, the new key holds
\* a harmonic of frequency * ratio with the amplitude and phase of the old one,
\* the size is one less when the new key was held by another harmonic and the
\* same otherwise, and the entries at all other keys are as before.
C30_TransposeHarmonicMoves ==
    [][(/\ ret'.op = "transposeHarmonic"
        /\ KeyParses(ret'.args[1]) /\ Parses(ret'.args[2].in)
        /\ WellKeyed(heap, harmonics[ret'.s])
        /\ AllPositive(heap, harmonics[ret'.s]))
        => LET m == harmonics[ret'.s]
               after == harmonics'[ret'.s]
               oldKey == KeyOf(Store, ret'.args[1])
               old == heap[MapGet(m, oldKey)]
               moved == [old EXCEPT !.frequency = Mul(@, Fraction(ret'.args[2].in))]
               newKey == FrequencyStr(moved)
           IN  /\ ret'.ok
               /\ ret'.val = ret'.s
               /\ IF ~MapHas(m, oldKey) THEN harmonics' = harmonics /\ heap' = heap
                  ELSE IF newKey = oldKey THEN harmonics' = harmonics /\ heap' = heap
                  ELSE /\ ~MapHas(after, oldKey)
                       /\ MapHas(after, newKey)
                       /\ heap'[MapGet(after, newKey)] = moved
                       /\ Len(after) = Len(m) - (IF MapHas(m, newKey) THEN 1 ELSE 0)
                       /\ Elsewhere(heap', after, {oldKey, newKey})
                              = Elsewhere(heap, m, {oldKey, newKey})]_vars

\* C30 witness: in {1, 3/2, 2} the harmonic at 1, of amplitude 1/2, was moved by
\* 2 onto the key of another of amplitude 1: two entries are left and the key 2
\* holds the amplitude 1/2
C30_Witness ==
    /\ ret.op = "transposeHarmonic" /\ ret.ok /\ ret.r = <<2, 1>>
    /\ ret.args[1] = ArgF(<<1, 1>>)
    /\ Len(harmonics[1]) = 2
    /\ MapHas(harmonics[1], "3/2") /\ MapHas(harmonics[1], "2")
    /\ heap[MapGet(harmonics[1], "2")].amplitude = 1
    /\ heap[MapGet(harmonics[1], "3/2")].amplitude = AmpOne

\* ------------------------------------------- the steps of a transpose
\* the single-harmonic moves of the loop of Spectrum.transpose, in order: the
\* store before the move, the harmonic of allHarmonics that is moved, those
\* still to come, and the store after the move
RECURSIVE TransposeSteps(_, _, _, _)
TransposeSteps(st, s, order, r) ==
    IF order = <<>> THEN <<>>
    ELSE LET o == SpectrumTransposeHarmonic(st, s, ArgH(Head(order)), r)
         IN  IF ~o.ok THEN <<>>
             ELSE LET after == Collect(o.st, Range(Tail(order)))
                  IN  <<[before |-> st, h |-> Head(order), rest |-> Tail(order),
                         after |-> after]>>
                          \o TransposeSteps(after, s, Tail(order), r)

\* the moves of the transpose that is being taken
Steps == TransposeSteps(Store, ret'.s, TransposeOrder(Store, ret'.s, ret'.r), ret'.r)

NextOwn ==
    \/ NewHarmonic({<<3, 2>>}, {AmpOne}, {0})
    \/ Add(Receiver \cup Copy)
    \/ AddData(Receiver, {<<1, 1>>}, {AmpOne}, {0})
    \/ NewSpectrum(Copy, {<<6, 4>>}, {AmpOne}, {0})
    \/ Remove(Receiver, {<<1, 1>>})
    \/ Clear(Copy)
    \/ TransposeHarmonic(Receiver, {<<3, 2>>}, {<<2, 1>>})
    \/ Transpose(Copy, {<<2, 1>>})
    \/ ScaleAmplitudes(Receiver, {<<0, 1>>})
    \/ Clone(Receiver, Copy)

SpecOwn == Init /\ [][NextOwn]_vars

\* the rational frequencies a Map's harmonics have
StoredRationals(m) == {heap[m[i].h].frequency : i \in 1 .. Len(m)}

\* C28: after any sequence of Spectrum operations, the stored harmonics changed
\* by nothing else, every key of every Spectrum is the canonical string of the
\* frequency of the harmonic under it, no two stored harmonics of a Spectrum
\* have the same rational frequency, and the size is the number of distinct
\* stored frequencies.
C28_KeysConsistent ==
    \A s \in Receiver \cup Copy :
        /\ WellKeyed(heap, harmonics[s])
        /\ \A i \in 1 .. Len(harmonics[s]) : \A j \in 1 .. Len(harmonics[s]) :
               SameRational(heap[harmonics[s][i].h].frequency,
                            heap[harmonics[s][j].h].frequency) => i = j
        /\ Len(harmonics[s]) = Cardinality(StoredRationals(harmonics[s]))

\* C28 witness: a Harmonic of the caller, 3/2, was added to both Spectra, and
\* the first moved its entry to 3: the second still holds the caller's object
\* under 3/2
C28_Witness ==
    /\ ret.op = "transposeHarmonic" /\ ret.ok /\ ret.r = <<2, 1>>
    /\ MapHas(harmonics[1], "3") /\ ~MapHas(harmonics[1], "3/2")
    /\ MapHas(harmonics[2], "3/2")
    /\ MapGet(harmonics[2], "3/2") \in refs

====
